---- MODULE Spec2Model ----
(***************************************************************************)
(* Verification model of the kaitai_struct C++ compiler core               *)
(* (compiler-cpp/src): the KSIR1 serializer and parser, the IR validator,  *)
(* the import loader, the supportability gate, the expression renderer and *)
(* the code the emitters generate.                                         *)
(*                                                                         *)
(* Text is modelled at character level: a std::string is a sequence of     *)
(* one-character strings, so quoting, line splitting and token extraction  *)
(* are computed as the code computes them.  A std::optional<T> is a        *)
(* sequence of length 0 (nullopt) or 1; a shared_ptr<Expr> likewise.       *)
(***************************************************************************)
EXTENDS Integers, Sequences, FiniteSets, TLC

----------------------------------------------------------------------------
(* std::string and std::optional helpers                                   *)

NullOpt == <<>>

Some(v) == <<v>>

HasValue(o) == Len(o) = 1

ValueOf(o) == o[1]

RECURSIVE Concat(_)
Concat(parts) ==
  IF parts = <<>> THEN <<>> ELSE Head(parts) \o Concat(Tail(parts))

StartsWith(s, prefix) ==
  /\ Len(s) >= Len(prefix)
  /\ SubSeq(s, 1, Len(prefix)) = prefix

Substr(s, from) == SubSeq(s, from + 1, Len(s))

Digits == <<"0", "1", "2", "3", "4", "5", "6", "7", "8", "9">>

IsDigit(c) == \E d \in 1..10 : Digits[d] = c

DigitValue(c) == (CHOOSE d \in 1..10 : Digits[d] = c) - 1

RECURSIVE NatToChars(_)
NatToChars(n) ==
  IF n < 10 THEN <<Digits[n + 1]>>
  ELSE NatToChars(n \div 10) \o <<Digits[(n % 10) + 1]>>

\* operator<<(long long) / std::to_string
IntToChars(n) == IF n < 0 THEN <<"-">> \o NatToChars(0 - n) ELSE NatToChars(n)

IsSpace(c) == c \in {" ", "\n", "\t", "\r"}

----------------------------------------------------------------------------
(* ir.h: the IR data model                                                 *)

Endians == {"kLe", "kBe"}

IntPrimitives == {"kU1", "kU2", "kU4", "kU8", "kS1", "kS2", "kS4", "kS8"}

PrimitiveTypes == IntPrimitives \cup {"kF4", "kF8", "kStr", "kBytes"}

\* struct Expr, default-constructed
DefaultExpr ==
  [kind |-> "kInt", int_value |-> 0, bool_value |-> FALSE, text |-> <<>>,
   lhs |-> NullOpt, rhs |-> NullOpt]

ExprInt(value) == [DefaultExpr EXCEPT !.kind = "kInt", !.int_value = value]

ExprBool(value) == [DefaultExpr EXCEPT !.kind = "kBool", !.bool_value = value]

ExprName(value) == [DefaultExpr EXCEPT !.kind = "kName", !.text = value]

ExprUnary(op, value) ==
  [DefaultExpr EXCEPT !.kind = "kUnary", !.text = op, !.lhs = Some(value)]

ExprBinary(op, left, right) ==
  [DefaultExpr EXCEPT !.kind = "kBinary", !.text = op, !.lhs = Some(left),
                      !.rhs = Some(right)]

\* struct TypeRef, default-constructed
DefaultTypeRef == [kind |-> "kPrimitive", primitive |-> "kU1", user_type |-> <<>>]

PrimitiveRef(p) == [DefaultTypeRef EXCEPT !.primitive = p]

UserRef(name) == [DefaultTypeRef EXCEPT !.kind = "kUser", !.user_type = name]

\* struct Attr, default-constructed
DefaultAttr ==
  [id |-> <<>>, type |-> DefaultTypeRef, endian_override |-> NullOpt,
   size_expr |-> NullOpt, enum_name |-> NullOpt, encoding |-> NullOpt,
   if_expr |-> NullOpt, repeat |-> "kNone", repeat_expr |-> NullOpt,
   switch_on |-> NullOpt, switch_cases |-> <<>>]

\* struct Spec, default-constructed
DefaultSpec ==
  [name |-> <<>>, default_endian |-> "kLe", imports |-> <<>>, types |-> <<>>,
   attrs |-> <<>>, enums |-> <<>>, instances |-> <<>>, validations |-> <<>>]

Ok == [ok |-> TRUE, error |-> "", detail |-> <<>>]

Err(msg) == [ok |-> FALSE, error |-> msg, detail |-> <<>>]

ErrAt(msg, what) == [ok |-> FALSE, error |-> msg, detail |-> what]

----------------------------------------------------------------------------
(* ir.cpp: KSIR1 text serialization                                        *)

\* the words of the KSIR1 format, as character sequences

Kw ==
  [w_KSIR1 |-> <<"K", "S", "I", "R", "1">>,
   w_name |-> <<"n", "a", "m", "e">>,
   w_default_endian |-> <<"d", "e", "f", "a", "u", "l", "t", "_", "e", "n", "d", "i", "a", "n">>,
   w_enum_value |-> <<"e", "n", "u", "m", "_", "v", "a", "l", "u", "e">>,
   w_end |-> <<"e", "n", "d">>,
   w_else |-> <<"e", "l", "s", "e">>,
   w_primitive |-> <<"p", "r", "i", "m", "i", "t", "i", "v", "e">>,
   w_user |-> <<"u", "s", "e", "r">>]

\* the word that stands for an absent field
None == <<"n", "o", "n", "e">>

\* the tags and the bool literals of a serialized expression
Tag ==
  [w_int |-> <<"i", "n", "t">>, w_bool |-> <<"b", "o", "o", "l">>,
   w_name |-> <<"n", "a", "m", "e">>, w_un |-> <<"u", "n">>, w_bin |-> <<"b", "i", "n">>,
   w_true |-> <<"t", "r", "u", "e">>, w_false |-> <<"f", "a", "l", "s", "e">>]

\* the sections in the order Serialize writes and Deserialize reads them:
\* the word of the header line, the word of a row, and the error of a
\* section cut short
Sections ==
  <<[header |-> <<"i", "m", "p", "o", "r", "t", "s">>,
     row |-> <<"i", "m", "p", "o", "r", "t">>, truncated |-> "truncated import section"],
    [header |-> <<"t", "y", "p", "e", "s">>,
     row |-> <<"t", "y", "p", "e">>, truncated |-> "truncated type section"],
    [header |-> <<"a", "t", "t", "r", "s">>,
     row |-> <<"a", "t", "t", "r">>, truncated |-> "truncated attr section"],
    [header |-> <<"e", "n", "u", "m", "s">>,
     row |-> <<"e", "n", "u", "m">>, truncated |-> "truncated enum section"],
    [header |-> <<"i", "n", "s", "t", "a", "n", "c", "e", "s">>,
     row |-> <<"i", "n", "s", "t", "a", "n", "c", "e">>,
     truncated |-> "truncated instance section"],
    [header |-> <<"v", "a", "l", "i", "d", "a", "t", "i", "o", "n", "s">>,
     row |-> <<"v", "a", "l", "i", "d", "a", "t", "i", "o", "n">>,
     truncated |-> "truncated validation section"]>>

EndianNames == [kLe |-> <<"l", "e">>, kBe |-> <<"b", "e">>]

PrimitiveNames ==
  [kU1 |-> <<"u", "1">>, kU2 |-> <<"u", "2">>, kU4 |-> <<"u", "4">>, kU8 |-> <<"u", "8">>,
   kS1 |-> <<"s", "1">>, kS2 |-> <<"s", "2">>, kS4 |-> <<"s", "4">>, kS8 |-> <<"s", "8">>,
   kF4 |-> <<"f", "4">>, kF8 |-> <<"f", "8">>, kStr |-> <<"s", "t", "r">>,
   kBytes |-> <<"b", "y", "t", "e", "s">>]

RepeatKindNames ==
  [kNone |-> <<"n", "o", "n", "e">>, kEos |-> <<"e", "o", "s">>,
   kExpr |-> <<"e", "x", "p", "r">>, kUntil |-> <<"u", "n", "t", "i", "l">>]

EndianToString(endian) == IF endian = "kLe" THEN EndianNames.kLe ELSE EndianNames.kBe

PrimitiveToString(t) == PrimitiveNames[t]

RepeatKindToString(repeat) == RepeatKindNames[repeat]

\* operator<<(std::quoted(s)): the delimiter and the escape character are
\* escaped with a backslash, every other character (a line feed included) is
\* copied as it is
RECURSIVE QuotedBody(_)
QuotedBody(s) ==
  IF s = <<>> THEN <<>>
  ELSE (IF Head(s) \in {"\"", "\\"} THEN <<"\\", Head(s)>> ELSE <<Head(s)>>)
       \o QuotedBody(Tail(s))

Quoted(s) == <<"\"">> \o QuotedBody(s) \o <<"\"">>

RECURSIVE SerializeExpr(_)
SerializeExpr(expr) ==
  CASE expr.kind = "kInt" ->
         Concat(<<<<"(">>, Tag.w_int, <<" ">>, IntToChars(expr.int_value), <<")">>>>)
    [] expr.kind = "kBool" ->
         Concat(<<<<"(">>, Tag.w_bool, <<" ">>,
                  IF expr.bool_value THEN Tag.w_true ELSE Tag.w_false, <<")">>>>)
    [] expr.kind = "kName" ->
         Concat(<<<<"(">>, Tag.w_name, <<" ">>, Quoted(expr.text), <<")">>>>)
    [] expr.kind = "kUnary" ->
         Concat(<<<<"(">>, Tag.w_un, <<" ">>, Quoted(expr.text), <<" ">>,
                  SerializeExpr(ValueOf(expr.lhs)), <<")">>>>)
    [] expr.kind = "kBinary" ->
         Concat(<<<<"(">>, Tag.w_bin, <<" ">>, Quoted(expr.text), <<" ">>,
                  SerializeExpr(ValueOf(expr.lhs)), <<" ">>,
                  SerializeExpr(ValueOf(expr.rhs)), <<")">>>>)
    [] OTHER -> <<>>

SerializeTypeRef(t) ==
  IF t.kind = "kPrimitive"
  THEN Concat(<<Kw.w_primitive, <<" ">>, Quoted(PrimitiveToString(t.primitive))>>)
  ELSE Concat(<<Kw.w_user, <<" ">>, Quoted(t.user_type)>>)

\* the lines of one section: its rows, one after the other
Rows(items, Row(_)) == Concat([i \in 1..Len(items) |-> Row(items[i])])

SerializeAttr(a) ==
  Concat(<<Sections[3].row, <<" ">>, Quoted(a.id), <<" ">>, SerializeTypeRef(a.type),
           <<" ">>,
           IF HasValue(a.endian_override)
             THEN EndianToString(ValueOf(a.endian_override)) ELSE None,
           <<" ">>,
           Quoted(IF HasValue(a.size_expr) THEN SerializeExpr(ValueOf(a.size_expr))
                  ELSE None),
           <<" ">>,
           Quoted(IF HasValue(a.enum_name) THEN ValueOf(a.enum_name) ELSE None),
           <<" ">>,
           Quoted(IF HasValue(a.encoding) THEN ValueOf(a.encoding) ELSE None),
           <<"\n">>>>)

Serialize(spec) ==
  LET ImportRow(imp) == Concat(<<Sections[1].row, <<" ">>, Quoted(imp), <<"\n">>>>)
      TypeRow(t) ==
        Concat(<<Sections[2].row, <<" ">>, Quoted(t.name), <<" ">>,
                 SerializeTypeRef(t.type), <<"\n">>>>)
      ValueRow(v) ==
        Concat(<<Kw.w_enum_value, <<" ">>, IntToChars(v.value), <<" ">>, Quoted(v.name),
                 <<"\n">>>>)
      EnumRow(e) ==
        Concat(<<Sections[4].row, <<" ">>, Quoted(e.name), <<" ">>,
                 NatToChars(Len(e.values)), <<"\n">>, Rows(e.values, ValueRow)>>)
      InstanceRow(i) ==
        Concat(<<Sections[5].row, <<" ">>, Quoted(i.id), <<" ">>,
                 Quoted(SerializeExpr(i.value_expr)), <<"\n">>>>)
      ValidationRow(v) ==
        Concat(<<Sections[6].row, <<" ">>, Quoted(v.target), <<" ">>,
                 Quoted(SerializeExpr(v.condition_expr)), <<" ">>, Quoted(v.message),
                 <<"\n">>>>)
      Header(k, items) ==
        Concat(<<Sections[k].header, <<" ">>, NatToChars(Len(items)), <<"\n">>>>)
  IN Concat(<<Kw.w_KSIR1, <<"\n">>,
              Kw.w_name, <<" ">>, Quoted(spec.name), <<"\n">>,
              Kw.w_default_endian, <<" ">>, EndianToString(spec.default_endian), <<"\n">>,
              Header(1, spec.imports), Rows(spec.imports, ImportRow),
              Header(2, spec.types), Rows(spec.types, TypeRow),
              Header(3, spec.attrs), Rows(spec.attrs, SerializeAttr),
              Header(4, spec.enums), Rows(spec.enums, EnumRow),
              Header(5, spec.instances), Rows(spec.instances, InstanceRow),
              Header(6, spec.validations), Rows(spec.validations, ValidationRow),
              Kw.w_end, <<"\n">>>>)

----------------------------------------------------------------------------
(* std::istringstream: a buffer, the read position (the number of          *)
(* characters consumed) and the stream state.  An extraction from a stream *)
(* that has failed does nothing and leaves its target as it was (old).     *)

Stream(text) == [buf |-> text, pos |-> 0, ok |-> TRUE]

RECURSIVE SkipSpaces(_, _)
SkipSpaces(buf, pos) ==
  IF pos < Len(buf) /\ IsSpace(buf[pos + 1]) THEN SkipSpaces(buf, pos + 1) ELSE pos

RECURSIVE WordEnd(_, _)
WordEnd(buf, pos) ==
  IF pos < Len(buf) /\ ~IsSpace(buf[pos + 1]) THEN WordEnd(buf, pos + 1) ELSE pos

\* in >> std::string
ReadWord(st, old) ==
  LET From(p) ==
        IF p >= Len(st.buf)
        THEN [st |-> [st EXCEPT !.pos = p, !.ok = FALSE], val |-> old]
        ELSE [st |-> [st EXCEPT !.pos = WordEnd(st.buf, p)],
              val |-> SubSeq(st.buf, p + 1, WordEnd(st.buf, p))]
  IN IF ~st.ok THEN [st |-> st, val |-> old] ELSE From(SkipSpaces(st.buf, st.pos))

\* the loop of in >> std::quoted(s) after the opening delimiter: characters
\* are taken up to the closing delimiter, a backslash taking the next one as
\* it is; running out of characters sets failbit
RECURSIVE QuotedScan(_, _, _)
QuotedScan(st, pos, acc) ==
  IF pos >= Len(st.buf)
  THEN [st |-> [st EXCEPT !.pos = Len(st.buf), !.ok = FALSE], val |-> acc]
  ELSE LET c == st.buf[pos + 1]
       IN IF c = "\\"
          THEN IF pos + 1 >= Len(st.buf)
               THEN [st |-> [st EXCEPT !.pos = Len(st.buf), !.ok = FALSE], val |-> acc]
               ELSE QuotedScan(st, pos + 2, Append(acc, st.buf[pos + 2]))
          ELSE IF c = "\""
               THEN [st |-> [st EXCEPT !.pos = pos + 1], val |-> acc]
               ELSE QuotedScan(st, pos + 1, Append(acc, c))

\* in >> std::quoted(s)
ReadQuotedToken(st, old) ==
  LET From(p) ==
        IF p >= Len(st.buf)
        THEN [st |-> [st EXCEPT !.pos = p, !.ok = FALSE], val |-> old]
        ELSE IF st.buf[p + 1] # "\"" THEN ReadWord([st EXCEPT !.pos = p], old)
        ELSE QuotedScan(st, p + 1, <<>>)
  IN IF ~st.ok THEN [st |-> st, val |-> old] ELSE From(SkipSpaces(st.buf, st.pos))

RECURSIVE DigitsEnd(_, _)
DigitsEnd(buf, pos) ==
  IF pos < Len(buf) /\ IsDigit(buf[pos + 1]) THEN DigitsEnd(buf, pos + 1) ELSE pos

RECURSIVE CharsToNat(_)
CharsToNat(ds) ==
  IF ds = <<>> THEN 0
  ELSE 10 * CharsToNat(SubSeq(ds, 1, Len(ds) - 1)) + DigitValue(ds[Len(ds)])

\* in >> size_t / in >> long long: an optional sign and decimal digits
ReadNumber(st, old, signed) ==
  LET Value(neg, d, e) ==
        IF e = d THEN [st |-> [st EXCEPT !.pos = d, !.ok = FALSE], val |-> 0]
        ELSE [st |-> [st EXCEPT !.pos = e],
              val |-> IF neg THEN 0 - CharsToNat(SubSeq(st.buf, d + 1, e))
                      ELSE CharsToNat(SubSeq(st.buf, d + 1, e))]
      Signed(neg, d) == Value(neg, d, DigitsEnd(st.buf, d))
      From(p) ==
        IF signed /\ p < Len(st.buf) /\ st.buf[p + 1] = "-" THEN Signed(TRUE, p + 1)
        ELSE Signed(FALSE, p)
  IN IF ~st.ok THEN [st |-> st, val |-> old] ELSE From(SkipSpaces(st.buf, st.pos))

\* the lines std::getline hands out, one call after the other: the text is
\* cut at every line feed, and a last line without one is still a line
SplitLines(text) ==
  LET feeds == {i \in 1..Len(text) : text[i] = "\n"}
      Feed(k) == IF k = 0 THEN 0
                 ELSE CHOOSE i \in feeds : Cardinality({j \in feeds : j < i}) = k - 1
      n == Cardinality(feeds)
      whole == [k \in 1..n |-> SubSeq(text, Feed(k - 1) + 1, Feed(k) - 1)]
  IN IF Feed(n) < Len(text) THEN Append(whole, SubSeq(text, Feed(n) + 1, Len(text)))
     ELSE whole

----------------------------------------------------------------------------
(* ir.cpp: struct ExprParser                                               *)

\* the end of the token ExprParser::ReadToken collects from pos on: the
\* next blank or paren
RECURSIVE TokenEnd(_, _)
TokenEnd(input, pos) ==
  IF pos < Len(input) /\ ~IsSpace(input[pos + 1]) /\ input[pos + 1] \notin {"(", ")"}
  THEN TokenEnd(input, pos + 1) ELSE pos

\* ExprParser::ReadToken, SkipWs done: the token from pos on and the
\* position after it
ReadToken(input, pos) ==
  [val |-> SubSeq(input, pos + 1, TokenEnd(input, pos)), pos |-> TokenEnd(input, pos)]

\* std::stoll on a token: TRUE when it converts
StollConverts(tok) ==
  DigitsEnd(tok, IF tok # <<>> /\ tok[1] \in {"-", "+"} THEN 1 ELSE 0)
    > (IF tok # <<>> /\ tok[1] \in {"-", "+"} THEN 1 ELSE 0)

Stoll(tok) ==
  IF tok[1] = "-" THEN 0 - CharsToNat(SubSeq(tok, 2, DigitsEnd(tok, 1)))
  ELSE IF tok[1] = "+" THEN CharsToNat(SubSeq(tok, 2, DigitsEnd(tok, 1)))
  ELSE CharsToNat(SubSeq(tok, 1, DigitsEnd(tok, 0)))

\* ExprParser::ReadQuoted, SkipWs done: the quoted token is cut out of the
\* input, escapes kept, and then read back with std::quoted
ReadQuoted(input, p) ==
  IF p >= Len(input) THEN [ok |-> FALSE, val |-> <<>>, pos |-> p]
  ELSE IF input[p + 1] # "\"" THEN [ok |-> FALSE, val |-> <<>>, pos |-> p + 1]
  ELSE LET Scanned(r) == [ok |-> r.st.ok, val |-> r.val, pos |-> r.st.pos]
       IN Scanned(QuotedScan(Stream(input), p + 1, <<>>))

\* ExprParser::Parse: [res, expr, pos]; res.error = "exception" stands for
\* the exception std::stoll throws on a token that is no number
RECURSIVE Parse(_, _)
Parse(input, pos0) ==
  LET Fail(msg, p) == [res |-> Err(msg), expr |-> DefaultExpr, pos |-> p]
      Closing(e, q) ==
        IF q < Len(input) /\ input[q + 1] = ")"
        THEN [res |-> Ok, expr |-> e, pos |-> q + 1]
        ELSE [res |-> Err("expression missing closing ')'"), expr |-> e,
              pos |-> IF q < Len(input) THEN q + 1 ELSE q]
      Close(e, p) == Closing(e, SkipSpaces(input, p))
      IntLit(num) ==
        IF num.val = <<>> THEN Fail("missing int literal", num.pos)
        ELSE IF ~StollConverts(num.val) THEN Fail("exception", num.pos)
        ELSE Close(ExprInt(Stoll(num.val)), num.pos)
      BoolLit(val) ==
        IF val.val = <<>> THEN Fail("missing bool literal", val.pos)
        ELSE IF val.val \notin {Tag.w_true, Tag.w_false}
        THEN Fail("invalid bool literal", val.pos)
        ELSE Close(ExprBool(val.val = Tag.w_true), val.pos)
      NameLit(val) ==
        IF ~val.ok THEN Fail("invalid name literal", val.pos)
        ELSE Close(ExprName(val.val), val.pos)
      UnaryOf(op, operand) ==
        IF ~operand.res.ok THEN operand
        ELSE Close(ExprUnary(op, operand.expr), operand.pos)
      Unary(op) ==
        IF ~op.ok THEN Fail("invalid unary operator", op.pos)
        ELSE UnaryOf(op.val, Parse(input, op.pos))
      BinaryOf(op, left, right) ==
        IF ~right.res.ok THEN right
        ELSE Close(ExprBinary(op, left.expr, right.expr), right.pos)
      BinaryLeft(op, left) ==
        IF ~left.res.ok THEN left ELSE BinaryOf(op, left, Parse(input, left.pos))
      Binary(op) ==
        IF ~op.ok THEN Fail("invalid binary operator", op.pos)
        ELSE BinaryLeft(op.val, Parse(input, op.pos))
      Tagged(tag) ==
        IF tag.val = <<>> THEN Fail("missing expression tag", tag.pos)
        ELSE IF tag.val = Tag.w_int
          THEN IntLit(ReadToken(input, SkipSpaces(input, tag.pos)))
        ELSE IF tag.val = Tag.w_bool
          THEN BoolLit(ReadToken(input, SkipSpaces(input, tag.pos)))
        ELSE IF tag.val = Tag.w_name
          THEN NameLit(ReadQuoted(input, SkipSpaces(input, tag.pos)))
        ELSE IF tag.val = Tag.w_un
          THEN Unary(ReadQuoted(input, SkipSpaces(input, tag.pos)))
        ELSE IF tag.val = Tag.w_bin
          THEN Binary(ReadQuoted(input, SkipSpaces(input, tag.pos)))
        ELSE Fail("unknown expression tag", tag.pos)
      Opened(p0) ==
        IF p0 >= Len(input) THEN Fail("expression must start with '('", p0)
        ELSE IF input[p0 + 1] # "(" THEN Fail("expression must start with '('", p0 + 1)
        ELSE Tagged(ReadToken(input, SkipSpaces(input, p0 + 1)))
  IN Opened(SkipSpaces(input, pos0))

\* ExprParser parser{text}; parser.Parse(&expr)
ParseExprText(text) == Parse(text, 0)

----------------------------------------------------------------------------
(* ir.cpp: KSIR1 text parsing                                              *)

EndianFromString(text) ==
  IF text = EndianNames.kLe THEN [res |-> Ok, val |-> "kLe"]
  ELSE IF text = EndianNames.kBe THEN [res |-> Ok, val |-> "kBe"]
  ELSE [res |-> ErrAt("invalid endian", text), val |-> "kLe"]

\* the if-chain over the twelve primitive names
PrimitiveFromString(text) ==
  LET Found(ts) ==
        IF ts = {} THEN [res |-> ErrAt("invalid primitive type", text), val |-> "kU1"]
        ELSE [res |-> Ok, val |-> CHOOSE t \in ts : TRUE]
  IN Found({t \in PrimitiveTypes : PrimitiveNames[t] = text})

RepeatKindFromString(text) ==
  LET Found(ks) ==
        IF ks = {} THEN [res |-> ErrAt("invalid repeat kind", text), val |-> "kNone"]
        ELSE [res |-> Ok, val |-> CHOOSE k \in ks : TRUE]
  IN Found({k \in {"kNone", "kEos", "kExpr", "kUntil"} : RepeatKindNames[k] = text})

\* the result of a loop that returns at its first failing item
RECURSIVE FirstError(_)
FirstError(results) ==
  IF results = <<>> THEN Ok
  ELSE IF ~Head(results).ok THEN Head(results) ELSE FirstError(Tail(results))

\* one chain of extractions row >> a >> b >> ...: each target is
\* [kind, old]; the result gives, per target, its value and whether the
\* stream was still good after it
RECURSIVE Extract(_, _, _)
Extract(st, targets, acc) ==
  LET Next(r) ==
        Extract(r.st, Tail(targets), Append(acc, [val |-> r.val, ok |-> r.st.ok]))
  IN IF targets = <<>> THEN [st |-> st, got |-> acc]
     ELSE Next(CASE Head(targets).kind = "word" -> ReadWord(st, Head(targets).old)
                 [] Head(targets).kind = "quoted" ->
                      ReadQuotedToken(st, Head(targets).old)
                 [] Head(targets).kind = "size_t" ->
                      ReadNumber(st, Head(targets).old, FALSE)
                 [] OTHER -> ReadNumber(st, Head(targets).old, TRUE))

\* the extraction chains of Deserialize: the targets of each kind of line
\* in the order they are extracted, with the values they hold beforehand
Targets ==
  LET word == [kind |-> "word", old |-> <<>>]
      quoted == [kind |-> "quoted", old |-> <<>>]
      count == [kind |-> "size_t", old |-> 0]
  IN [header |-> <<word, count>>,
      key |-> <<word>>,
      default_endian |-> <<word, word>>,
      import |-> <<word, quoted>>,
      type |-> <<word, quoted, word, quoted>>,
      attr |-> <<word, quoted, word, quoted, word, quoted, quoted, quoted,
                 [kind |-> "quoted", old |-> None],
                 [kind |-> "word", old |-> None],
                 [kind |-> "quoted", old |-> None],
                 [kind |-> "quoted", old |-> None], count>>,
      switch_case |-> <<quoted, word, quoted>>,
      enum |-> <<word, quoted, count>>,
      enum_value |-> <<word, [kind |-> "long long", old |-> 0], quoted>>,
      instance |-> <<word, quoted, quoted>>,
      validation |-> <<word, quoted, quoted, quoted>>]

\* ParseTypeRef(&row, &type) on a default-constructed TypeRef, given what
\* *in >> kind >> std::quoted(payload) extracted
ParseTypeRef(kind, payload) ==
  IF ~payload.ok THEN [res |-> Err("invalid type reference"), type |-> DefaultTypeRef]
  ELSE IF kind.val = Kw.w_primitive
  THEN [res |-> PrimitiveFromString(payload.val).res,
        type |-> PrimitiveRef(PrimitiveFromString(payload.val).val)]
  ELSE IF kind.val = Kw.w_user
  THEN [res |-> Ok, type |-> UserRef(payload.val)]
  ELSE [res |-> ErrAt("unknown type reference kind", kind.val), type |-> DefaultTypeRef]

\* the row parsers take the fields f the row's extraction chain produced

ParseImportRow(f) ==
  IF ~f[2].ok \/ f[1].val # Sections[1].row
  THEN [res |-> Err("invalid import row"), val |-> <<>>]
  ELSE [res |-> Ok, val |-> f[2].val]

ParseTypeRow(f) ==
  LET Typed(p) == [res |-> p.res, val |-> [name |-> f[2].val, type |-> p.type]]
  IN IF ~f[2].ok \/ f[1].val # Sections[2].row
     THEN [res |-> Err("invalid type row"), val |-> <<>>]
     ELSE Typed(ParseTypeRef(f[3], f[4]))

\* an optional text field of an attr row: absent when the text is "none"
OptExprFromText(text) ==
  LET Parsed(pe) == [res |-> pe.res, val |-> IF pe.res.ok THEN Some(pe.expr) ELSE NullOpt]
  IN IF text = None THEN [res |-> Ok, val |-> NullOpt]
     ELSE Parsed(ParseExprText(text))

\* one turn of the switch-case loop of an attr row, given its extraction
\* chain x: [res, val, st]
ParseSwitchCase(x) ==
  LET Matched(cp, mp) ==
        IF ~x.got[1].ok
        THEN [res |-> Err("invalid switch case row"), val |-> <<>>, st |-> x.st]
        ELSE IF ~cp.res.ok THEN [res |-> cp.res, val |-> <<>>, st |-> x.st]
        ELSE IF x.got[1].val = Kw.w_else
        THEN [res |-> Ok, val |-> [match_expr |-> NullOpt, type |-> cp.type], st |-> x.st]
        ELSE IF ~mp.res.ok THEN [res |-> mp.res, val |-> <<>>, st |-> x.st]
        ELSE [res |-> Ok, val |-> [match_expr |-> Some(mp.expr), type |-> cp.type],
              st |-> x.st]
  IN Matched(ParseTypeRef(x.got[2], x.got[3]), ParseExprText(x.got[1].val))

\* the switch-case loop of an attr row
RECURSIVE ParseSwitchCases(_, _, _)
ParseSwitchCases(st0, n, acc) ==
  LET Next(c) == IF ~c.res.ok THEN [res |-> c.res, cases |-> acc]
                 ELSE ParseSwitchCases(c.st, n - 1, Append(acc, c.val))
  IN IF n = 0 THEN [res |-> Ok, cases |-> acc]
     ELSE Next(ParseSwitchCase(Extract(st0, Targets.switch_case, <<>>)))

\* what the code does with the texts t of an attr row once they are
\* extracted and the switch cases sc are parsed
AttrFromTexts(id, type, t, sc) ==
  LET Built(e, size_expr, if_expr, repeat, repeat_expr, switch_on) ==
        [res |-> FirstError(<<sc.res, e.res, size_expr.res, if_expr.res, repeat.res,
                              repeat_expr.res, switch_on.res>>),
         val |-> [id |-> id, type |-> type, endian_override |-> e.val,
                  size_expr |-> size_expr.val,
                  enum_name |-> IF t.enum_name = None THEN NullOpt ELSE Some(t.enum_name),
                  encoding |-> IF t.encoding = None THEN NullOpt ELSE Some(t.encoding),
                  if_expr |-> if_expr.val, repeat |-> repeat.val,
                  repeat_expr |-> repeat_expr.val, switch_on |-> switch_on.val,
                  switch_cases |-> sc.cases]]
  IN Built(IF t.endian = None THEN [res |-> Ok, val |-> NullOpt]
           ELSE [res |-> EndianFromString(t.endian).res,
                 val |-> Some(EndianFromString(t.endian).val)],
           OptExprFromText(t.size_expr), OptExprFromText(t.if_expr),
           RepeatKindFromString(t.repeat_kind), OptExprFromText(t.repeat_expr),
           OptExprFromText(t.switch_on))

\* an attr row, given its extraction chain x
ParseAttrRow(x) ==
  LET Row(p, attr) ==
        IF ~x.got[2].ok \/ x.got[1].val # Sections[3].row
        THEN [res |-> Err("invalid attr row"), val |-> DefaultAttr]
        ELSE IF ~p.res.ok THEN [res |-> p.res, val |-> DefaultAttr]
        ELSE IF ~x.got[6].ok
        THEN [res |-> Err("invalid attr row suffix"), val |-> DefaultAttr]
        ELSE attr
  IN Row(ParseTypeRef(x.got[3], x.got[4]),
         AttrFromTexts(x.got[2].val, ParseTypeRef(x.got[3], x.got[4]).type,
                       [endian |-> x.got[5].val, size_expr |-> x.got[6].val,
                        enum_name |-> IF x.got[8].ok THEN x.got[7].val ELSE None,
                        encoding |-> IF x.got[8].ok THEN x.got[8].val ELSE None,
                        if_expr |-> x.got[9].val, repeat_kind |-> x.got[10].val,
                        repeat_expr |-> x.got[11].val, switch_on |-> x.got[12].val],
                       IF x.got[13].ok THEN ParseSwitchCases(x.st, x.got[13].val, <<>>)
                       ELSE [res |-> Ok, cases |-> <<>>]))

ParseEnumValueRow(f) ==
  IF ~f[3].ok \/ f[1].val # Kw.w_enum_value
  THEN [res |-> Err("invalid enum value row"), val |-> <<>>]
  ELSE [res |-> Ok, val |-> [value |-> f[2].val, name |-> f[3].val]]

ParseInstanceRow(f) ==
  LET Parsed(pe) == [res |-> pe.res, val |-> [id |-> f[2].val, value_expr |-> pe.expr]]
  IN IF ~f[3].ok \/ f[1].val # Sections[5].row
     THEN [res |-> Err("invalid instance row"), val |-> <<>>]
     ELSE Parsed(ParseExprText(f[3].val))

ParseValidationRow(f) ==
  LET Parsed(pe) ==
        [res |-> pe.res,
         val |-> [target |-> f[2].val, condition_expr |-> pe.expr, message |-> f[4].val]]
  IN IF ~f[4].ok \/ f[1].val # Sections[6].row
     THEN [res |-> Err("invalid validation row"), val |-> <<>>]
     ELSE Parsed(ParseExprText(f[3].val))

\* the body of the row loop of section s (0: the enum_value rows of an enum)
ParseRow(s, line) ==
  CASE s = 1 -> ParseImportRow(Extract(Stream(line), Targets.import, <<>>).got)
    [] s = 2 -> ParseTypeRow(Extract(Stream(line), Targets.type, <<>>).got)
    [] s = 3 -> ParseAttrRow(Extract(Stream(line), Targets.attr, <<>>))
    [] s = 0 -> ParseEnumValueRow(Extract(Stream(line), Targets.enum_value, <<>>).got)
    [] s = 5 -> ParseInstanceRow(Extract(Stream(line), Targets.instance, <<>>).got)
    [] OTHER -> ParseValidationRow(Extract(Stream(line), Targets.validation, <<>>).got)

\* a section of count rows of one line each, from line li + 1 on: the rows
\* parsed before the first getline or row that fails, and that failure
SectionRows(lines, li, count, s, truncated) ==
  LET Before(r, f) ==
        [res |-> IF f > Len(r) THEN Ok ELSE r[f].res,
         items |-> [i \in 1..(f - 1) |-> r[i].val],
         li |-> IF li + f - 1 > Len(lines) THEN Len(lines) ELSE li + f - 1]
      First(r) ==
        Before(r, IF \A i \in DOMAIN r : r[i].res.ok THEN Len(r) + 1
                 ELSE CHOOSE i \in DOMAIN r :
                        ~r[i].res.ok /\ \A j \in 1..(i - 1) : r[j].res.ok)
  IN First([i \in 1..(IF count > Len(lines) - li THEN Len(lines) - li + 1 ELSE count)
              |-> IF li + i > Len(lines) THEN [res |-> Err(truncated), val |-> <<>>]
                  ELSE ParseRow(s, lines[li + i])])

\* an enum row with fields f on line li and the enum_value rows under it:
\* [res, val, li]
ParseEnum(lines, li, f) ==
  LET Values(vs) ==
        [res |-> vs.res, val |-> [name |-> f[2].val, values |-> vs.items], li |-> vs.li]
  IN IF ~f[3].ok \/ f[1].val # Sections[4].row
     THEN [res |-> Err("invalid enum row"), val |-> <<>>, li |-> li]
     ELSE Values(SectionRows(lines, li, f[3].val, 0, "truncated enum value section"))

\* the enums section: count enums from line li + 1 on
RECURSIVE ParseEnums(_, _, _, _)
ParseEnums(lines, li, count, acc) ==
  LET Next(e) == IF ~e.res.ok THEN [res |-> e.res, items |-> acc, li |-> e.li]
                 ELSE ParseEnums(lines, e.li, count - 1, Append(acc, e.val))
  IN IF count = 0 THEN [res |-> Ok, items |-> acc, li |-> li]
     ELSE IF li + 1 > Len(lines)
     THEN [res |-> Err("truncated enum section"), items |-> acc, li |-> li]
     ELSE Next(ParseEnum(lines, li + 1,
                         Extract(Stream(lines[li + 1]), Targets.enum, <<>>).got))

----------------------------------------------------------------------------
(* ir.cpp: Validate                                                        *)

\* the visit lambda that takes a name it is visiting for a visited one
RECURSIVE AliasVisitNoPath(_, _, _, _)
AliasVisitNoPath(name, edges, declared_types, states) ==
  IF name \notin DOMAIN states THEN [res |-> Ok, states |-> states]
  ELSE IF states[name] \in {"kVisiting", "kVisited"} THEN [res |-> Ok, states |-> states]
  ELSE LET marked == [states EXCEPT ![name] = "kVisiting"]
       IN IF edges[name] \notin declared_types
          THEN [res |-> ErrAt("references unknown user type", edges[name]),
                states |-> marked]
          ELSE LET r == AliasVisitNoPath(edges[name], edges, declared_types, marked)
               IN IF ~r.res.ok THEN r
                  ELSE [res |-> Ok, states |-> [r.states EXCEPT ![name] = "kVisited"]]

\* Validate's visit lambda over the alias edges: [res, states]
RECURSIVE AliasVisit(_, _, _, _)
AliasVisit(name, edges, declared_types, states) ==
  IF name \notin DOMAIN states THEN [res |-> Ok, states |-> states]
  ELSE IF states[name] = "kVisiting"
  THEN [res |-> ErrAt("type alias cycle detected at", name), states |-> states]
  ELSE IF states[name] = "kVisited" THEN [res |-> Ok, states |-> states]
  ELSE LET marked == [states EXCEPT ![name] = "kVisiting"]
       IN IF edges[name] \notin declared_types
          THEN [res |-> ErrAt("references unknown user type", edges[name]),
                states |-> marked]
          ELSE LET r == AliasVisit(edges[name], edges, declared_types, marked)
               IN IF ~r.res.ok THEN r
                  ELSE [res |-> Ok, states |-> [r.states EXCEPT ![name] = "kVisited"]]

\* the closing loop of Validate over type_alias_edges, taken in the given order
RECURSIVE AliasLoop(_, _, _, _)
AliasLoop(order, edges, declared_types, states) ==
  IF order = <<>> THEN Ok
  ELSE LET r == AliasVisit(Head(order), edges, declared_types, states)
       IN IF ~r.res.ok THEN r.res
          ELSE AliasLoop(Tail(order), edges, declared_types, r.states)

\* the switch checks of Validate without the one for a second else case
SwitchChecksAnyElse(attr) ==
  LET CaseCheck(k) ==
        IF attr.switch_cases[k].type.kind # "kPrimitive"
        THEN Err("switch case user-defined types are not supported in this migration slice")
        ELSE Ok
  IN IF attr.switch_cases # <<>> /\ ~HasValue(attr.switch_on)
     THEN Err("attr.switch_cases requires attr.switch_on")
     ELSE IF HasValue(attr.switch_on) /\ attr.switch_cases = <<>>
     THEN Err("attr.switch_on requires at least one switch case")
     ELSE FirstError([k \in 1..Len(attr.switch_cases) |-> CaseCheck(k)])

\* the switch checks of Validate on one attr
SwitchChecks(attr) ==
  LET CaseCheck(k) ==
        IF /\ ~HasValue(attr.switch_cases[k].match_expr)
           /\ \E j \in 1..(k - 1) : ~HasValue(attr.switch_cases[j].match_expr)
        THEN Err("attr.switch_cases has duplicate switch else case")
        ELSE IF attr.switch_cases[k].type.kind # "kPrimitive"
        THEN Err("switch case user-defined types are not supported in this migration slice")
        ELSE Ok
  IN IF attr.switch_cases # <<>> /\ ~HasValue(attr.switch_on)
     THEN Err("attr.switch_cases requires attr.switch_on")
     ELSE IF HasValue(attr.switch_on) /\ attr.switch_cases = <<>>
     THEN Err("attr.switch_on requires at least one switch case")
     ELSE FirstError([k \in 1..Len(attr.switch_cases) |-> CaseCheck(k)])

\* Validate, its closing loop over the unordered map type_alias_edges taken
\* in the given order of the keys
ValidateIn(spec, order) ==
  LET Names(items) == {items[i].name : i \in 1..Len(items)}
      declared_types == {spec.name} \cup Names(spec.types)
      enum_names == Names(spec.enums)
      TypeCheck(i) ==
        LET t == spec.types[i]
        IN IF t.name = <<>> THEN Err("type.name is required")
           ELSE IF t.name = spec.name \/ \E j \in 1..(i - 1) : spec.types[j].name = t.name
           THEN ErrAt("duplicate type declaration", t.name)
           ELSE IF t.type.kind = "kUser" /\ t.type.user_type = <<>>
           THEN Err("user type reference requires user_type")
           ELSE Ok
      require_known_type(ref) ==
        IF ref.kind # "kUser" THEN Ok
        ELSE IF ref.user_type = <<>> THEN Err("attr user type reference requires user_type")
        ELSE IF ref.user_type \notin declared_types
        THEN ErrAt("attr references unknown user type", ref.user_type)
        ELSE Ok
      ValueCheck(e, k) ==
        IF e.values[k].name = <<>> THEN ErrAt("enum value name is required in enum", e.name)
        ELSE IF \E j \in 1..(k - 1) : e.values[j].name = e.values[k].name
        THEN ErrAt("duplicate enum value name in enum", e.name)
        ELSE Ok
      EnumCheck(i) ==
        LET e == spec.enums[i]
        IN IF e.name = <<>> THEN Err("enum.name is required")
           ELSE IF \E j \in 1..(i - 1) : spec.enums[j].name = e.name
           THEN ErrAt("duplicate enum declaration", e.name)
           ELSE IF e.values = <<>> THEN ErrAt("enum.values must not be empty", e.name)
           ELSE FirstError([k \in 1..Len(e.values) |-> ValueCheck(e, k)])
      EnumFound(name) ==
        \/ name \in enum_names
        \/ \E en \in enum_names :
             /\ Len(en) > Len(name)
             /\ SubSeq(en, Len(en) - Len(name) + 1, Len(en)) = name
             /\ en[Len(en) - Len(name)] = ":"
      AttrCheck(i) ==
        LET attr == spec.attrs[i]
        IN IF attr.id = <<>> THEN Err("attr.id is required")
           ELSE IF ~require_known_type(attr.type).ok THEN require_known_type(attr.type)
           ELSE IF /\ HasValue(attr.encoding) /\ attr.type.kind = "kPrimitive"
                   /\ attr.type.primitive # "kStr"
           THEN Err("attr.encoding is only allowed for primitive str type")
           ELSE IF attr.repeat = "kExpr" /\ ~HasValue(attr.repeat_expr)
           THEN Err("attr.repeat_expr is required when repeat=expr")
           ELSE IF attr.repeat = "kUntil" /\ ~HasValue(attr.repeat_expr)
           THEN Err("attr.repeat_expr is required when repeat=until")
           ELSE IF attr.repeat \in {"kNone", "kEos"} /\ HasValue(attr.repeat_expr)
           THEN Err("attr.repeat_expr is only allowed when repeat=expr/until")
           ELSE IF ~SwitchChecks(attr).ok THEN SwitchChecks(attr)
           ELSE IF ~HasValue(attr.enum_name) THEN Ok
           ELSE IF attr.type.kind # "kPrimitive" \/ attr.type.primitive \notin IntPrimitives
           THEN Err("attr.enum_name requires primitive integer type")
           ELSE IF ~EnumFound(ValueOf(attr.enum_name))
           THEN ErrAt("attr references unknown enum", ValueOf(attr.enum_name))
           ELSE Ok
      InstanceCheck(i) ==
        IF spec.instances[i].id = <<>> THEN Err("instance.id is required") ELSE Ok
      ValidationCheck(i) ==
        IF spec.validations[i].target = <<>> THEN Err("validation.target is required")
        ELSE Ok
      aliases == {i \in 1..Len(spec.types) : spec.types[i].type.kind = "kUser"}
      edges == [n \in {spec.types[i].name : i \in aliases} |->
                  (CHOOSE i \in aliases : spec.types[i].name = n
                     /\ \A j \in aliases : spec.types[j].name = n => j <= i)]
      type_alias_edges == [n \in DOMAIN edges |-> spec.types[edges[n]].type.user_type]
  IN IF spec.name = <<>> THEN Err("spec.name is required")
     ELSE FirstError(<<
            FirstError([i \in 1..Len(spec.types) |-> TypeCheck(i)]),
            FirstError([i \in 1..Len(spec.enums) |-> EnumCheck(i)]),
            FirstError([i \in 1..Len(spec.attrs) |-> AttrCheck(i)]),
            FirstError([i \in 1..Len(spec.instances) |-> InstanceCheck(i)]),
            FirstError([i \in 1..Len(spec.validations) |-> ValidationCheck(i)]),
            AliasLoop(order, type_alias_edges, declared_types,
                      [n \in DOMAIN type_alias_edges |-> "kNotVisited"])>>)

\* the aliases of a Spec in the order of their declaration
DeclaredAliases(spec) ==
  LET aliases == {i \in 1..Len(spec.types) : spec.types[i].type.kind = "kUser"}
  IN [k \in 1..Cardinality(aliases) |->
        spec.types[CHOOSE i \in aliases : Cardinality({j \in aliases : j < i}) = k - 1].name]

\* Validate where the order of the closing loop does not matter to the
\* caller: whether it accepts is the same in every order
Validate(spec) == ValidateIn(spec, DeclaredAliases(spec))


----------------------------------------------------------------------------
(* ir.cpp: Deserialize(encoded, out, validate): [res, out]; out is filled  *)
(* section by section, so a failure leaves it partly overwritten           *)

\* section k, given the fields h of its header line li: the first header
\* may be "imports" or, the imports section left out, "types": [res, out,
\* li, k], k the section to come next
ParseSection(lines, li, k, out, h) ==
  LET s == IF k = 1 /\ h[1].val = Sections[2].header THEN 2 ELSE k
      cleared == IF k = 1 THEN [out EXCEPT !.imports = <<>>] ELSE out
      Fill(rows) ==
        [res |-> rows.res, li |-> rows.li, k |-> s + 1,
         out |-> CASE s = 1 -> [cleared EXCEPT !.imports = rows.items]
                   [] s = 2 -> [cleared EXCEPT !.types = rows.items]
                   [] s = 3 -> [cleared EXCEPT !.attrs = rows.items]
                   [] s = 4 -> [cleared EXCEPT !.enums = rows.items]
                   [] s = 5 -> [cleared EXCEPT !.instances = rows.items]
                   [] OTHER -> [cleared EXCEPT !.validations = rows.items]]
  IN IF ~h[2].ok \/ h[1].val # Sections[s].header
     THEN [res |-> ErrAt("invalid section header",
                         IF k = 1 THEN <<"imports/types">> ELSE Sections[k].header),
           out |-> cleared, li |-> li, k |-> k]
     ELSE Fill(IF s = 4 THEN ParseEnums(lines, li, h[2].val, <<>>)
               ELSE SectionRows(lines, li, h[2].val, s, Sections[s].truncated))

\* the header line and the rows of section k and of those after it, from
\* line li + 1 on
RECURSIVE ParseSections(_, _, _, _)
ParseSections(lines, li, k, out) ==
  LET Next(r) == IF ~r.res.ok THEN [res |-> r.res, out |-> r.out, li |-> r.li]
                 ELSE ParseSections(lines, r.li, r.k, r.out)
  IN IF k > Len(Sections) THEN [res |-> Ok, out |-> out, li |-> li]
     ELSE IF li + 1 > Len(lines)
     THEN [res |-> ErrAt("missing section header",
                         IF k = 1 THEN <<"imports/types">> ELSE Sections[k].header),
           out |-> out, li |-> li]
     ELSE Next(ParseSection(lines, li + 1, k, out,
                            Extract(Stream(lines[li + 1]), Targets.header, <<>>).got))

\* the lines before the sections: the magic line, the spec name and the
\* default endian
ParseHead(lines, out) ==
  LET Endian(named, e, endian) ==
        IF ~e[2].ok \/ e[1].val # Kw.w_default_endian
        THEN [res |-> Err("invalid default_endian line"), out |-> named]
        ELSE IF ~endian.res.ok THEN [res |-> endian.res, out |-> named]
        ELSE [res |-> Ok, out |-> [named EXCEPT !.default_endian = endian.val]]
      Second(named, e) == Endian(named, e, EndianFromString(e[2].val))
      Named(name, named) ==
        IF ~name.st.ok THEN [res |-> Err("invalid name line"), out |-> named]
        ELSE IF Len(lines) < 3
        THEN [res |-> Err("missing default endian line"), out |-> named]
        ELSE Second(named, Extract(Stream(lines[3]), Targets.default_endian, <<>>).got)
      Name(name) == Named(name, [out EXCEPT !.name = name.val])
      Key(n) ==
        Name(IF n.got[1].ok /\ n.got[1].val = Kw.w_name
             THEN ReadQuotedToken(n.st, out.name)
             ELSE [st |-> [n.st EXCEPT !.ok = FALSE], val |-> out.name])
  IN IF Len(lines) < 1 THEN [res |-> Err("missing KSIR1 header"), out |-> out]
     ELSE IF lines[1] # Kw.w_KSIR1 THEN [res |-> Err("missing KSIR1 header"), out |-> out]
     ELSE IF Len(lines) < 2 THEN [res |-> Err("missing spec name line"), out |-> out]
     ELSE Key(Extract(Stream(lines[2]), Targets.key, <<>>))

Deserialize(encoded, out0, validate) ==
  LET End(lines, head, body) ==
        IF ~head.res.ok THEN head
        ELSE IF ~body.res.ok THEN [res |-> body.res, out |-> body.out]
        ELSE IF body.li + 1 > Len(lines)
        THEN [res |-> Err("missing end marker"), out |-> body.out]
        ELSE IF lines[body.li + 1] # Kw.w_end
        THEN [res |-> Err("missing end marker"), out |-> body.out]
        ELSE [res |-> IF validate THEN Validate(body.out) ELSE Ok, out |-> body.out]
  IN End(SplitLines(encoded), ParseHead(SplitLines(encoded), out0),
         ParseSections(SplitLines(encoded), 3, 1, ParseHead(SplitLines(encoded), out0).out))

----------------------------------------------------------------------------
(* ir.cpp: import resolution.  A path is a string; the file system of the  *)
(* model holds regular files only, under absolute paths, and has no        *)
(* symbolic links, so that weakly_canonical is the lexical normal form of  *)
(* the path (relative paths are taken from the root directory).            *)

\* the names between the separators of a path
PathNames(p) ==
  LET seps == {i \in 1..Len(p) : p[i] = "/"}
      Sep(k) == IF k = 0 THEN 0
                ELSE IF k > Cardinality(seps) THEN Len(p) + 1
                ELSE CHOOSE i \in seps : Cardinality({j \in seps : j < i}) = k - 1
  IN [k \in 1..(Cardinality(seps) + 1) |-> SubSeq(p, Sep(k - 1) + 1, Sep(k) - 1)]

\* the names of a path with "", "." and ".." resolved, left to right
RECURSIVE CanonicalNames(_, _)
CanonicalNames(names, acc) ==
  IF names = <<>> THEN acc
  ELSE IF Head(names) \in {<<>>, <<".">>} THEN CanonicalNames(Tail(names), acc)
  ELSE IF Head(names) = <<".", ".">>
  THEN CanonicalNames(Tail(names), SubSeq(acc, 1, Len(acc) - 1))
  ELSE CanonicalNames(Tail(names), Append(acc, Head(names)))

\* std::filesystem::weakly_canonical
WeaklyCanonical(p) ==
  LET Joined(names) == Concat([k \in DOMAIN names |-> <<"/">> \o names[k]])
  IN Joined(CanonicalNames(PathNames(p), <<>>))

\* path::parent_path of the path of a file
ParentPath(p) ==
  LET Upto(last) == IF last = 1 THEN <<"/">> ELSE SubSeq(p, 1, last - 1)
  IN Upto(CHOOSE i \in 1..Len(p) : p[i] = "/" /\ \A j \in (i + 1)..Len(p) : p[j] # "/")

\* path::operator/
PathJoin(base, rel) ==
  IF rel # <<>> /\ rel[1] = "/" THEN rel
  ELSE IF base[Len(base)] = "/" THEN base \o rel
  ELSE base \o <<"/">> \o rel

NormalizeImportPath(import_name) ==
  [i \in DOMAIN import_name |-> IF import_name[i] = "\\" THEN "/" ELSE import_name[i]]

\* ResolveImportPath over the file system whose files are existing:
\* [res, resolved]
ResolveImportPath(import_name, current_file, import_paths, existing) ==
  LET First(canon, hits) ==
        IF hits = {}
        THEN [res |-> ErrAt("failed to resolve import", import_name), resolved |-> <<>>]
        ELSE [res |-> Ok, resolved |-> canon[CHOOSE i \in hits : \A j \in hits : i <= j]]
      Existing(canon, on) == First(canon, {i \in DOMAIN canon : on[i] /\ canon[i] \in existing})
      Candidates(normalized) ==
        IF normalized # <<>> /\ normalized[1] = "/"
        THEN Existing(<<WeaklyCanonical(normalized)>>, <<TRUE>>)
        ELSE Existing(
               <<WeaklyCanonical(PathJoin(ParentPath(current_file), normalized))>>
                 \o [i \in DOMAIN import_paths |->
                       IF import_paths[i] = <<>> THEN <<>>
                       ELSE WeaklyCanonical(PathJoin(import_paths[i], normalized))],
               <<TRUE>> \o [i \in DOMAIN import_paths |-> import_paths[i] # <<>>])
  IN Candidates(NormalizeImportPath(import_name))

\* the chain of an import cycle: the files joined by " -> "
JoinChain(chain) ==
  Concat([k \in DOMAIN chain |->
            IF k = 1 THEN chain[k] ELSE <<" ", "-", ">", " ">> \o chain[k]])

\* the merge loop with the duplicate check left out: every item is appended
MergeSymbolsUnchecked(items, seen, list) ==
  [dup |-> NullOpt, seen |-> seen \cup {items[i].name : i \in DOMAIN items},
   list |-> list \o items]

\* the merge loop that puts each item at the front of the list
RECURSIVE MergeSymbolsFront(_, _, _)
MergeSymbolsFront(items, seen, list) ==
  IF items = <<>> THEN [dup |-> NullOpt, seen |-> seen, list |-> list]
  ELSE IF Head(items).name \in seen
  THEN [dup |-> Some(Head(items).name), seen |-> seen, list |-> list]
  ELSE MergeSymbolsFront(Tail(items), seen \cup {Head(items).name}, <<Head(items)>> \o list)

\* seen.insert(item.name) for the items of a dependency, each followed by
\* list.push_back(item), up to the first name that is in seen already:
\* [dup, seen, list]
RECURSIVE MergeSymbols(_, _, _)
MergeSymbols(items, seen, list) ==
  IF items = <<>> THEN [dup |-> NullOpt, seen |-> seen, list |-> list]
  ELSE IF Head(items).name \in seen
  THEN [dup |-> Some(Head(items).name), seen |-> seen, list |-> list]
  ELSE MergeSymbols(Tail(items), seen \cup {Head(items).name}, Append(list, Head(items)))

----------------------------------------------------------------------------
(* codegen.cpp: expression rendering                                       *)

\* the spelling a target operator is emitted with
NormalizeOp(op) ==
  IF op = <<"a", "n", "d">> THEN <<"&", "&">>
  ELSE IF op = <<"o", "r">> THEN <<"|", "|">>
  ELSE IF op = <<"x", "o", "r">> THEN <<"^">>
  ELSE IF op = <<"n", "o", "t">> THEN <<"!">>
  ELSE op

ExprPrecedence(expr) ==
  LET op == NormalizeOp(expr.text)
  IN IF expr.kind # "kBinary" THEN 100
     ELSE IF op = <<"|", "|">> THEN 10
     ELSE IF op = <<"&", "&">> THEN 20
     ELSE IF op = <<"|">> THEN 30
     ELSE IF op = <<"^">> THEN 35
     ELSE IF op = <<"&">> THEN 40
     ELSE IF op \in {<<"=", "=">>, <<"!", "=">>} THEN 45
     ELSE IF op \in {<<"<">>, <<"<", "=">>, <<">">>, <<">", "=">>} THEN 50
     ELSE IF op \in {<<"<", "<">>, <<">", ">">>} THEN 55
     ELSE IF op \in {<<"+">>, <<"-">>} THEN 60
     ELSE IF op \in {<<"*">>, <<"/">>, <<"%">>} THEN 70
     ELSE 5

\* the payload behind the prefix when op starts with it and the payload
\* is not empty
ParseSpecialUnary(op, prefix) ==
  IF StartsWith(op, prefix) /\ Len(op) > Len(prefix)
  THEN Some(Substr(op, Len(prefix))) ELSE NullOpt

\* the parts of a scoped name between the "::" separators
RECURSIVE SplitScopePath(_, _)
SplitScopePath(name, part) ==
  IF name = <<>> THEN (IF part = <<>> THEN <<>> ELSE <<part>>)
  ELSE IF StartsWith(name, <<":", ":">>)
  THEN <<part>> \o SplitScopePath(Substr(name, 2), <<>>)
  ELSE SplitScopePath(Tail(name), Append(part, Head(name)))

CppUserTypeName(type_name) ==
  LET kstruct == <<"k", "a", "i", "t", "a", "i", ":", ":", "k", "s", "t", "r", "u", "c", "t">>
      Joined(parts) ==
        Concat([i \in DOMAIN parts |->
                  (IF i = 1 THEN <<>> ELSE <<":", ":">>) \o parts[i] \o <<"_", "t">>])
  IN IF type_name \in {kstruct, <<"s", "t", "r", "u", "c", "t">>, <<>>} THEN kstruct
     ELSE Joined(SplitScopePath(type_name, <<>>))

\* the text of an expression below an operator of strength parent_prec
RECURSIVE RenderExpr(_, _, _, _, _)
RenderExpr(expr, attrs, instances, parent_prec, repeat_item_name) ==
  LET Paren(s) == <<"(">> \o s \o <<")">>
      Operand == RenderExpr(ValueOf(expr.lhs), attrs, instances, 90, repeat_item_name)
      Unary(cast, attr) ==
        IF HasValue(cast)
        THEN <<"s", "t", "a", "t", "i", "c", "_", "c", "a", "s", "t", "<">>
             \o CppUserTypeName(ValueOf(cast)) \o <<"*", ">">> \o Paren(Operand)
        ELSE IF HasValue(attr)
        THEN Operand \o <<"-", ">">> \o ValueOf(attr) \o <<"(", ")">>
        ELSE Paren(NormalizeOp(expr.text) \o Operand)
      Binary(prec, op, lhs, rhs) ==
        IF op \in {<<"&", "&">>, <<"|", "|">>}
        THEN Paren(Paren(lhs) \o <<" ">> \o op \o <<" ">> \o Paren(rhs))
        ELSE IF prec <= parent_prec
        THEN Paren(lhs \o <<" ">> \o op \o <<" ">> \o rhs)
        ELSE lhs \o <<" ">> \o op \o <<" ">> \o rhs
  IN CASE expr.kind = "kInt" -> IntToChars(expr.int_value)
       [] expr.kind = "kBool" ->
            IF expr.bool_value THEN <<"t", "r", "u", "e">> ELSE <<"f", "a", "l", "s", "e">>
       [] expr.kind = "kName" ->
            IF repeat_item_name # <<>> /\ expr.text = <<"_">> THEN repeat_item_name
            ELSE IF expr.text \in attrs \cup instances THEN expr.text \o <<"(", ")">>
            ELSE expr.text
       [] expr.kind = "kUnary" ->
            Unary(ParseSpecialUnary(expr.text, <<"_", "_", "c", "a", "s", "t", "_", "_", ":">>),
                  ParseSpecialUnary(expr.text, <<"_", "_", "a", "t", "t", "r", "_", "_", ":">>))
       [] expr.kind = "kBinary" ->
            Binary(ExprPrecedence(expr), NormalizeOp(expr.text),
                   RenderExpr(ValueOf(expr.lhs), attrs, instances, ExprPrecedence(expr),
                              repeat_item_name),
                   RenderExpr(ValueOf(expr.rhs), attrs, instances, ExprPrecedence(expr) + 1,
                              repeat_item_name))

----------------------------------------------------------------------------
(* codegen.cpp: the supportability gate                                    *)

\* the fields codegen.cpp reads of an Attr, an Instance and a Spec beside
\* those of ir.h, default-constructed
CgAttr(attr) == attr @@ [process |-> NullOpt, user_type_args |-> <<>>]

CgInstance(id) ==
  [id |-> id, kind |-> "kValue", value_expr |-> DefaultExpr, type |-> DefaultTypeRef,
   pos_expr |-> NullOpt, size_expr |-> NullOpt, encoding |-> NullOpt,
   endian_override |-> NullOpt]

\* user_types[type.name] = type.type for the types in order: the last
\* declaration of a name stays
BuildUserTypeMap(types) ==
  LET Last(n) == CHOOSE i \in DOMAIN types :
                   /\ types[i].name = n
                   /\ \A j \in DOMAIN types : types[j].name = n => j <= i
  IN [n \in {types[i].name : i \in DOMAIN types} |-> types[Last(n)].type]

\* the loop of ResolvePrimitiveType from the user type cur on
RECURSIVE ResolveAlias(_, _, _)
ResolveAlias(cur, seen, user_types) ==
  IF cur \notin DOMAIN user_types \/ cur \in seen THEN NullOpt
  ELSE IF user_types[cur].kind = "kPrimitive" THEN Some(user_types[cur].primitive)
  ELSE ResolveAlias(user_types[cur].user_type, seen \cup {cur}, user_types)

ResolvePrimitiveType(ref, user_types) ==
  IF ref.kind = "kPrimitive" THEN Some(ref.primitive)
  ELSE ResolveAlias(ref.user_type, {}, user_types)

IsUnresolvedUserType(type_ref, user_types) ==
  type_ref.kind = "kUser" /\ ~HasValue(ResolvePrimitiveType(type_ref, user_types))

EnumNameMatches(declared, ref) ==
  \/ declared = ref
  \/ /\ Len(declared) > Len(ref)
     /\ Substr(declared, Len(declared) - Len(ref)) = ref
     /\ declared[Len(declared) - Len(ref)] = ":"

\* the lambda validate_expr of the gate
RECURSIVE validate_expr(_, _)
validate_expr(expr, known_names) ==
  LET Then(lhs) == IF ~lhs.ok THEN lhs ELSE validate_expr(ValueOf(expr.rhs), known_names)
  IN CASE expr.kind \in {"kInt", "kBool"} -> Ok
       [] expr.kind = "kName" ->
            IF expr.text # <<"_">> /\ expr.text \notin known_names
            THEN ErrAt("not yet supported: expression name reference outside attrs/instances",
                       expr.text)
            ELSE Ok
       [] expr.kind = "kUnary" ->
            IF /\ expr.text \notin {<<"-">>, <<"!">>, <<"n", "o", "t">>, <<"~">>}
               /\ ~StartsWith(expr.text, <<"_", "_", "c", "a", "s", "t", "_", "_", ":">>)
               /\ ~StartsWith(expr.text, <<"_", "_", "a", "t", "t", "r", "_", "_", ":">>)
            THEN ErrAt("not yet supported: unary operator", expr.text)
            ELSE validate_expr(ValueOf(expr.lhs), known_names)
       [] expr.kind = "kBinary" ->
            IF expr.text \notin
                 {<<"+">>, <<"-">>, <<"*">>, <<"/">>, <<"%">>, <<"=", "=">>, <<"!", "=">>,
                  <<">">>, <<">", "=">>, <<"<">>, <<"<", "=">>, <<"&", "&">>, <<"|", "|">>,
                  <<"a", "n", "d">>, <<"o", "r">>, <<"&">>, <<"|">>, <<"^">>,
                  <<"x", "o", "r">>, <<"<", "<">>, <<">", ">">>}
            THEN ErrAt("not yet supported: binary operator", expr.text)
            ELSE Then(validate_expr(ValueOf(expr.lhs), known_names))

\* the first loop of the gate over the attrs: the type of one attr
GateAttrType(attr, user_types) ==
  LET Check(resolved_type) ==
        IF ~HasValue(resolved_type) /\ attr.type.kind # "kUser"
        THEN Err("not yet supported: attr type must resolve to primitive type")
        ELSE IF ~HasValue(resolved_type)
        THEN (IF HasValue(attr.encoding) \/ HasValue(attr.process) \/ HasValue(attr.enum_name)
              THEN Err("not yet supported: complex user-type attrs in this migration slice")
              ELSE Ok)
        ELSE IF HasValue(attr.encoding) /\ ValueOf(resolved_type) # "kStr"
        THEN Err("not yet supported: encoding outside str attrs")
        ELSE IF ValueOf(resolved_type) \notin PrimitiveTypes
        THEN Err("not yet supported: primitive attr type in this migration slice")
        ELSE Ok
  IN Check(ResolvePrimitiveType(attr.type, user_types))

\* the loop of the gate over the cases of one switch
RECURSIVE GateSwitchCases(_, _, _, _)
GateSwitchCases(cases, switch_case_type, has_else, user_types) ==
  LET Check(c, resolved_case) ==
        IF ~HasValue(resolved_case)
        THEN Err("not yet supported: switch-on case type must resolve to primitive type")
        ELSE IF HasValue(switch_case_type) /\ switch_case_type # resolved_case
        THEN Err("not yet supported: switch-on cases must share one primitive type")
        ELSE IF ~HasValue(c.match_expr) /\ has_else
        THEN Err("not yet supported: malformed switch cases (duplicate else)")
        ELSE GateSwitchCases(Tail(cases), resolved_case,
                             has_else \/ ~HasValue(c.match_expr), user_types)
  IN IF cases = <<>> THEN Ok
     ELSE Check(Head(cases), ResolvePrimitiveType(Head(cases).type, user_types))

\* the second loop of the gate over the attrs: the switch and the enum of
\* one attr
GateAttrSwitchEnum(attr, user_types, declared_enums) ==
  LET Enum(resolved_type) ==
        IF ~HasValue(attr.enum_name) THEN Ok
        ELSE IF \A i \in DOMAIN declared_enums :
                  ~EnumNameMatches(declared_enums[i], ValueOf(attr.enum_name))
        THEN Err("not yet supported: attr.enum_name references unknown enum")
        ELSE IF ValueOf(resolved_type) \notin IntPrimitives
        THEN Err("not yet supported: enum attrs must be integer-backed")
        ELSE Ok
      Check(resolved_type, cases) ==
        IF ~HasValue(resolved_type) /\ attr.type.kind # "kUser"
        THEN Err("not yet supported: attr type must resolve to primitive type")
        ELSE IF ~HasValue(resolved_type) THEN Ok
        ELSE IF HasValue(attr.switch_on) /\ ~cases.ok THEN cases
        ELSE Enum(resolved_type)
  IN Check(ResolvePrimitiveType(attr.type, user_types),
           GateSwitchCases(attr.switch_cases, NullOpt, FALSE, user_types))

\* validate_expr on an optional expression that is checked for a value first
GateOptExpr(opt, known_names) ==
  IF HasValue(opt) THEN validate_expr(ValueOf(opt), known_names) ELSE Ok

\* the loop of the gate over the instances, which adds each id to
\* known_names after its expressions were checked: [res, known_names]
RECURSIVE GateInstances(_, _, _)
GateInstances(instances, known_names, user_types) ==
  LET inst == Head(instances)
      ParseInstance(resolved_type) ==
        IF ~HasValue(resolved_type) /\ inst.type.kind # "kUser"
        THEN Err("not yet supported: parse instance type must resolve to primitive type")
        ELSE IF ~HasValue(resolved_type) /\ HasValue(inst.encoding)
        THEN Err("not yet supported: encoding on user-type parse instances")
        ELSE FirstError(<<GateOptExpr(inst.pos_expr, known_names),
                          GateOptExpr(inst.size_expr, known_names)>>)
      Then(result) ==
        IF ~result.ok THEN [res |-> result, known_names |-> known_names]
        ELSE GateInstances(Tail(instances), known_names \cup {inst.id}, user_types)
  IN IF instances = <<>> THEN [res |-> Ok, known_names |-> known_names]
     ELSE Then(IF inst.kind = "kValue" THEN validate_expr(inst.value_expr, known_names)
               ELSE ParseInstance(ResolvePrimitiveType(inst.type, user_types)))

\* the last loop of the gate over the attrs: the expressions of one attr
GateAttrExprs(attr, known_names) ==
  FirstError(<<GateOptExpr(attr.if_expr, known_names),
               GateOptExpr(attr.size_expr, known_names),
               GateOptExpr(attr.repeat_expr, known_names),
               GateOptExpr(attr.switch_on, known_names)>>
             \o [i \in DOMAIN attr.switch_cases |->
                   GateOptExpr(attr.switch_cases[i].match_expr, known_names)]
             \o [i \in DOMAIN attr.user_type_args |->
                   validate_expr(attr.user_type_args[i], known_names)])

\* a gate that takes any validation target
GateValidationAnyTarget(v, known_names) == validate_expr(v.condition_expr, known_names)

\* the loop body over spec.validations: the target, then the condition
GateValidation(v, known_names) ==
  IF v.target \notin known_names
  THEN ErrAt("not yet supported: validation target outside attrs/instances", v.target)
  ELSE validate_expr(v.condition_expr, known_names)

ValidateSupportedSubset(spec) ==
  LET Ids(items) == {items[i].id : i \in DOMAIN items}
      Exprs(insts) ==
        IF ~insts.res.ok THEN insts.res
        ELSE FirstError([i \in DOMAIN spec.validations |->
                           GateValidation(spec.validations[i], insts.known_names)]
                        \o [i \in DOMAIN spec.attrs |->
                              GateAttrExprs(spec.attrs[i], insts.known_names)])
      Gate(user_types) ==
        FirstError([i \in DOMAIN spec.attrs |-> GateAttrType(spec.attrs[i], user_types)]
                   \o [i \in DOMAIN spec.enums |->
                         IF spec.enums[i].name = <<>>
                         THEN Err("not yet supported: empty enum name") ELSE Ok]
                   \o [i \in DOMAIN spec.attrs |->
                         GateAttrSwitchEnum(spec.attrs[i], user_types,
                                            [e \in DOMAIN spec.enums |-> spec.enums[e].name])]
                   \o <<Exprs(GateInstances(spec.instances,
                                            Ids(spec.params) \cup Ids(spec.attrs),
                                            user_types))>>)
  IN Gate(BuildUserTypeMap(spec.types))

----------------------------------------------------------------------------
(* codegen.cpp: what RenderSource emits for the attrs and the instances    *)

CanRenderNativeSwitch(attr) ==
  /\ HasValue(attr.switch_on)
  /\ \A i \in DOMAIN attr.switch_cases :
       HasValue(attr.switch_cases[i].match_expr)
         => ValueOf(attr.switch_cases[i].match_expr).kind = "kInt"

\* the statement of _read() for one attr: the loop form and the text of
\* every expression rendered into it; repeat_expr is what *attr.repeat_expr
\* gave
ReadStatement(attr, attr_names, user_types, repeat_expr) ==
  LET Text(opt) == IF HasValue(opt) THEN Some(RenderExpr(ValueOf(opt), attr_names, {}, -1, <<>>))
                   ELSE NullOpt
      primitive == IF HasValue(ResolvePrimitiveType(attr.type, user_types))
                   THEN ValueOf(ResolvePrimitiveType(attr.type, user_types)) ELSE "kU1"
      sized == /\ ~HasValue(attr.switch_on)
               /\ ~IsUnresolvedUserType(attr.type, user_types)
               /\ primitive \in {"kBytes", "kStr"}
  IN [id |-> attr.id,
      cond |-> Text(attr.if_expr),
      form |-> CASE attr.repeat = "kEos" -> "while_not_eof"
                 [] attr.repeat = "kExpr" -> "for_count"
                 [] attr.repeat = "kUntil" -> "do_while"
                 [] OTHER -> IF CanRenderNativeSwitch(attr) THEN "switch" ELSE "assign",
      on |-> Text(attr.switch_on),
      size |-> IF sized THEN Text(attr.size_expr) ELSE NullOpt,
      count |-> IF attr.repeat = "kExpr"
                THEN Some(RenderExpr(repeat_expr, attr_names, {}, -1, <<>>)) ELSE NullOpt,
      until |-> IF attr.repeat = "kUntil"
                THEN Some(RenderExpr(repeat_expr, attr_names, {}, -1,
                                     <<"r", "e", "p", "e", "a", "t", "_", "i", "t", "e", "m">>))
                ELSE NullOpt]

----------------------------------------------------------------------------
(* A parser of rendered expressions: the grammar of the text RenderExpr    *)
(* writes, read with the operator table of ExprPrecedence, every binary    *)
(* operator left-associative.  No code of the repository parses this text; *)
(* the parser stands for the reader of the generated C++ source, which     *)
(* takes the longest token: two minus signs in a row are the one token     *)
(* "--", which the table does not have.                                    *)

\* the binary operator spelled at pos, the longest the table has, or <<>>
BinaryOpAt(text, pos) ==
  LET Known(op) == ExprPrecedence([kind |-> "kBinary", text |-> op]) > 5
  IN IF pos + 2 <= Len(text) /\ Known(SubSeq(text, pos + 1, pos + 2))
     THEN SubSeq(text, pos + 1, pos + 2)
     ELSE IF pos + 1 <= Len(text) /\ Known(SubSeq(text, pos + 1, pos + 1))
     THEN SubSeq(text, pos + 1, pos + 1)
     ELSE <<>>

\* the end of the name that starts at pos: letters, digits and underscores
RECURSIVE NameEnd(_, _)
NameEnd(text, pos) ==
  IF /\ pos < Len(text)
     /\ ~IsSpace(text[pos + 1])
     /\ text[pos + 1] \notin {"(", ")", "|", "&", "^", "=", "!", "<", ">", "+", "-", "*", "/",
                              "%", "~"}
  THEN NameEnd(text, pos + 1) ELSE pos

RECURSIVE ReparsePrimary(_, _)
RECURSIVE ReparseBinary(_, _, _)
RECURSIVE ReparseRest(_, _, _)

\* a literal, a name (with the () of an accessor call), a unary operator
\* and its operand, or an expression in parentheses: [ok, tree, pos]
ReparsePrimary(text, pos0) ==
  LET Fail == [ok |-> FALSE, tree |-> DefaultExpr, pos |-> pos0]
      Close(r, p) ==
        IF r.ok /\ p < Len(text) /\ text[p + 1] = ")" THEN [r EXCEPT !.pos = p + 1] ELSE Fail
      Group(r) == Close(r, SkipSpaces(text, r.pos))
      Unary(op, r) == IF r.ok THEN [r EXCEPT !.tree = ExprUnary(op, r.tree)] ELSE Fail
      Number(pos, e) ==
        [ok |-> TRUE, tree |-> ExprInt(CharsToNat(SubSeq(text, pos + 1, e))), pos |-> e]
      Name(word, e) ==
        IF word = <<>> THEN Fail
        ELSE IF word \in {Tag.w_true, Tag.w_false}
        THEN [ok |-> TRUE, tree |-> ExprBool(word = Tag.w_true), pos |-> e]
        ELSE [ok |-> TRUE, tree |-> ExprName(word),
              pos |-> IF StartsWith(Substr(text, e), <<"(", ")">>) THEN e + 2 ELSE e]
      At(pos) ==
        IF pos >= Len(text) THEN Fail
        ELSE IF text[pos + 1] = "(" THEN Group(ReparseBinary(text, pos + 1, 0))
        ELSE IF StartsWith(Substr(text, pos), <<"-", "-">>) THEN Fail
        ELSE IF text[pos + 1] \in {"-", "!", "~"}
        THEN Unary(<<text[pos + 1]>>, ReparsePrimary(text, pos + 1))
        ELSE IF IsDigit(text[pos + 1]) THEN Number(pos, DigitsEnd(text, pos))
        ELSE Name(SubSeq(text, pos + 1, NameEnd(text, pos)), NameEnd(text, pos))
  IN At(SkipSpaces(text, pos0))

\* the operators and right operands that follow the left operand lhs, as
\* long as they bind at least as tight as min_prec
ReparseRest(text, lhs, min_prec) ==
  LET Join(op, rhs) ==
        IF ~rhs.ok THEN rhs
        ELSE ReparseRest(text, [rhs EXCEPT !.tree = ExprBinary(op, lhs.tree, rhs.tree)],
                         min_prec)
      Prec(op) == ExprPrecedence([kind |-> "kBinary", text |-> op])
      On(pos, op) ==
        IF op = <<>> \/ Prec(op) < min_prec THEN lhs
        ELSE Join(op, ReparseBinary(text, pos + Len(op), Prec(op) + 1))
  IN IF ~lhs.ok THEN lhs
     ELSE On(SkipSpaces(text, lhs.pos), BinaryOpAt(text, SkipSpaces(text, lhs.pos)))

ReparseBinary(text, pos, min_prec) == ReparseRest(text, ReparsePrimary(text, pos), min_prec)

\* the tree of a whole text, if it is an expression
Reparse(text) ==
  LET Whole(r) == IF r.ok /\ SkipSpaces(text, r.pos) = Len(text) THEN Some(r.tree) ELSE NullOpt
  IN Whole(ReparseBinary(text, 0, 0))

\* an expression as the text can say it: every operator in the spelling it
\* is emitted with, and a negative literal as the negation of its magnitude
RECURSIVE Normalized(_)
Normalized(expr) ==
  IF expr.kind = "kInt" /\ expr.int_value < 0
  THEN ExprUnary(<<"-">>, ExprInt(0 - expr.int_value))
  ELSE [expr EXCEPT !.text = IF expr.kind \in {"kUnary", "kBinary"} THEN NormalizeOp(@) ELSE @,
                    !.lhs = IF HasValue(@) THEN Some(Normalized(ValueOf(@))) ELSE @,
                    !.rhs = IF HasValue(@) THEN Some(Normalized(ValueOf(@))) ELSE @]

----------------------------------------------------------------------------
(* The round trip of ir_roundtrip_test.cpp: a Spec is serialized, the text *)
(* is parsed back (validate = true) and the parsed Spec serialized again.  *)

VARIABLES spec_in, encoded, decoded, parsed, reencoded, rt_pc

rt_vars == <<spec_in, encoded, decoded, parsed, reencoded, rt_pc>>

\* LoadFromFileWithImports: the file system (path to text), the arguments
\* path and import_paths, the locals of the function, the active calls of
\* the lambdas dfs and merge_deps with the value the last one returned,
\* and what the function hands back
VARIABLES ld_files, ld_path, ld_import_paths, root, loaded, visiting, stack,
          merged, merged_files, seen_type_names, seen_enum_names,
          calls, ret, ld_out, ld_result, ld_pc

ld_vars ==
  <<ld_files, ld_path, ld_import_paths, root, loaded, visiting, stack,
    merged, merged_files, seen_type_names, seen_enum_names,
    calls, ret, ld_out, ld_result, ld_pc>>

\* EmitCppStl17FromIr: the arguments spec and (through out_dir) whether the
\* output directory and the two files can be made, the result of the gate,
\* the attr RenderSource is at, the statements of _read() emitted so far,
\* the absent optionals RenderSource dereferenced, what the function hands
\* back, and what an earlier call on the same arguments wrote and handed
\* back
VARIABLES cg_spec, cg_target, cg_env, cg_gate, cg_i, cg_read, cg_absent, cg_result, cg_first,
          cg_fs, cg_pc

cg_vars ==
  <<cg_spec, cg_target, cg_env, cg_gate, cg_i, cg_read, cg_absent, cg_result, cg_first,
    cg_fs, cg_pc>>

\* an expression, the text RenderExpr gives for it, and the tree read back
\* from the text
VARIABLES ex_expr, ex_text, ex_again, ex_pc

ex_vars == <<ex_expr, ex_text, ex_again, ex_pc>>

\* the generated class at work: the Spec it was written for, the stream and
\* its position, the members m_a, m_b, f_x and m_x, the value an accessor
\* call computed, the calls so far and what the last one did
VARIABLES gn_spec, gn_data, gn_pos, gn_a, gn_items, gn_f, gn_m, gn_stored, gn_calls,
          gn_last, gn_pc

gn_vars ==
  <<gn_spec, gn_data, gn_pos, gn_a, gn_items, gn_f, gn_m, gn_stored, gn_calls, gn_last, gn_pc>>

\* Validate called on a Spec: the Spec, the order in which the unordered map
\* of the aliases is iterated, and the result
VARIABLES va_spec, va_order, va_result, va_pc

va_vars == <<va_spec, va_order, va_result, va_pc>>

\* ParseCommandLine called on an argument list: the arguments after the
\* program name and the result
VARIABLES cl_argv, cl_result, cl_pc

cl_vars == <<cl_argv, cl_result, cl_pc>>

\* main after the command line is parsed and accepted: the Specs the load
\* yields, the one target or none, --from-ir, the output directory's state,
\* the position of the emission loop, the Specs emitted, the lines written
\* to the two streams and the exit code
VARIABLES mn_specs, mn_target, mn_from_ir, mn_env, mn_load_ok, mn_i, mn_emitted, mn_cout,
          mn_cerr, mn_exit, mn_pc

mn_vars ==
  <<mn_specs, mn_target, mn_from_ir, mn_env, mn_load_ok, mn_i, mn_emitted, mn_cout, mn_cerr,
    mn_exit, mn_pc>>

\* ResolveImports called on parsed inputs: the .ksy files on disk, the given
\* inputs, parsed->files, the two sets and the call stack of dfs, the root
\* reached, and the result
VARIABLES fe_disk, fe_roots, fe_files, fe_visited, fe_active, fe_stack, fe_i, fe_result,
          fe_pc

fe_vars ==
  <<fe_disk, fe_roots, fe_files, fe_visited, fe_active, fe_stack, fe_i, fe_result, fe_pc>>

\* a kstream over a seekable input: the bytes, the position, the calls made
\* and the last call with its outcome
VARIABLES ks_data, ks_pos, ks_calls, ks_last

ks_vars == <<ks_data, ks_pos, ks_calls, ks_last>>

\* the C++ emitted for a Spec with embedded scopes and one object of an
\* emitted class built over a stream: the root Spec, the scopes decoded
\* from it, the members every class declares, the sections of the source
\* file, the class built, the stream and what the constructor did
VARIABLES em_spec, em_scopes, em_header, em_source, em_class, em_data, em_run, em_pc

em_vars == <<em_spec, em_scopes, em_header, em_source, em_class, em_data, em_run, em_pc>>

\* RenderLuaModule on a Spec: the Spec, property_instances, known_instances,
\* the attr or instance the emitter is at, and the expressions rendered so
\* far with the text written for each
VARIABLES lu_spec, lu_property, lu_known, lu_i, lu_out, lu_pc

lu_vars == <<lu_spec, lu_property, lu_known, lu_i, lu_out, lu_pc>>

\* main from the command line to the emitter calls: the arguments, what
\* ParseCommandLine and ValidateBackendCompatibility returned, the number
\* of Specs loaded, the one the loop is at, the emitters called, the last
\* line on std::cout or std::cerr, and the exit code
VARIABLES dp_argv, dp_parse, dp_backend_error, dp_specs, dp_i, dp_called, dp_line, dp_exit,
          dp_pc

dp_vars ==
  <<dp_argv, dp_parse, dp_backend_error, dp_specs, dp_i, dp_called, dp_line, dp_exit, dp_pc>>

\* what an action of one part leaves alone of the other parts
rt_rest == <<ld_vars, cg_vars, ex_vars, gn_vars, va_vars, cl_vars, mn_vars, fe_vars, ks_vars, em_vars, lu_vars, dp_vars>>

ld_rest == <<rt_vars, cg_vars, ex_vars, gn_vars, va_vars, cl_vars, mn_vars, fe_vars, ks_vars, em_vars, lu_vars, dp_vars>>

cg_rest == <<rt_vars, ld_vars, ex_vars, gn_vars, va_vars, cl_vars, mn_vars, fe_vars, ks_vars, em_vars, lu_vars, dp_vars>>

ex_rest == <<rt_vars, ld_vars, cg_vars, gn_vars, va_vars, cl_vars, mn_vars, fe_vars, ks_vars, em_vars, lu_vars, dp_vars>>

gn_rest == <<rt_vars, ld_vars, cg_vars, ex_vars, va_vars, cl_vars, mn_vars, fe_vars, ks_vars, em_vars, lu_vars, dp_vars>>

va_rest == <<rt_vars, ld_vars, cg_vars, ex_vars, gn_vars, cl_vars, mn_vars, fe_vars, ks_vars, em_vars, lu_vars, dp_vars>>

cl_rest == <<rt_vars, ld_vars, cg_vars, ex_vars, gn_vars, va_vars, mn_vars, fe_vars, ks_vars, em_vars, lu_vars, dp_vars>>

mn_rest == <<rt_vars, ld_vars, cg_vars, ex_vars, gn_vars, va_vars, cl_vars, fe_vars, ks_vars, em_vars, lu_vars, dp_vars>>

fe_rest == <<rt_vars, ld_vars, cg_vars, ex_vars, gn_vars, va_vars, cl_vars, mn_vars, ks_vars, em_vars, lu_vars, dp_vars>>

ks_rest == <<rt_vars, ld_vars, cg_vars, ex_vars, gn_vars, va_vars, cl_vars, mn_vars, fe_vars, em_vars, lu_vars, dp_vars>>

em_rest == <<rt_vars, ld_vars, cg_vars, ex_vars, gn_vars, va_vars, cl_vars, mn_vars, fe_vars, ks_vars, lu_vars, dp_vars>>

lu_rest == <<rt_vars, ld_vars, cg_vars, ex_vars, gn_vars, va_vars, cl_vars, mn_vars, fe_vars, ks_vars, em_vars, dp_vars>>

dp_rest == <<rt_vars, ld_vars, cg_vars, ex_vars, gn_vars, va_vars, cl_vars, mn_vars, fe_vars, ks_vars, em_vars, lu_vars>>

\* the loader at rest, while another part of the program runs
LdIdle ==
  /\ ld_files = <<>> /\ ld_path = <<>> /\ ld_import_paths = <<>> /\ root = <<>>
  /\ loaded = <<>> /\ visiting = {} /\ stack = <<>>
  /\ merged = DefaultSpec /\ merged_files = {}
  /\ seen_type_names = {} /\ seen_enum_names = {}
  /\ calls = <<>> /\ ret = NullOpt /\ ld_out = DefaultSpec /\ ld_result = Ok
  /\ ld_pc = "idle"

\* the round trip at rest
RtIdle ==
  /\ spec_in = DefaultSpec /\ encoded = <<>> /\ decoded = DefaultSpec
  /\ parsed = Ok /\ reencoded = <<>> /\ rt_pc = "idle"

\* the emitter at rest
CgIdle ==
  /\ cg_spec = DefaultSpec /\ cg_target = "cpp_stl" /\ cg_env = "ok" /\ cg_gate = Ok /\ cg_i = 0
  /\ cg_read = <<>> /\ cg_absent = {} /\ cg_result = Ok /\ cg_first = NullOpt
  /\ cg_fs = <<>> /\ cg_pc = "idle"

\* the expression round trip at rest
ExIdle == ex_expr = DefaultExpr /\ ex_text = <<>> /\ ex_again = NullOpt /\ ex_pc = "idle"

\* the generated class at rest
GnIdle ==
  /\ gn_spec = DefaultSpec /\ gn_data = <<>> /\ gn_pos = 0 /\ gn_a = 0 /\ gn_items = <<>>
  /\ gn_f = FALSE /\ gn_m = 0 /\ gn_stored = NullOpt /\ gn_calls = 0
  /\ gn_last = [out |-> "none"] /\ gn_pc = "idle"

\* Validate at rest
VaIdle == va_spec = DefaultSpec /\ va_order = <<>> /\ va_result = Ok /\ va_pc = "idle"

\* the command line at rest
ClIdle ==
  /\ cl_argv = <<>> /\ cl_result = NullOpt /\ cl_pc = "idle"

\* main at rest
MnIdle ==
  /\ mn_specs = <<>> /\ mn_target = NullOpt /\ mn_from_ir = FALSE /\ mn_env = "ok"
  /\ mn_load_ok = TRUE /\ mn_i = 0 /\ mn_emitted = <<>> /\ mn_cout = <<>> /\ mn_cerr = <<>>
  /\ mn_exit = NullOpt /\ mn_pc = "idle"

\* the frontend at rest
FeIdle ==
  /\ fe_disk = <<>> /\ fe_roots = <<>> /\ fe_files = <<>> /\ fe_visited = {}
  /\ fe_active = {} /\ fe_stack = <<>> /\ fe_i = 0 /\ fe_result = Ok /\ fe_pc = "idle"

\* the runtime stream at rest
KsIdle == ks_data = <<>> /\ ks_pos = 0 /\ ks_calls = 0 /\ ks_last = NullOpt

\* the C++ emitter of scoped Specs at rest
EmIdle ==
  /\ em_spec = DefaultSpec /\ em_scopes = <<>> /\ em_header = <<>> /\ em_source = <<>>
  /\ em_class = <<>> /\ em_data = <<>> /\ em_run = NullOpt /\ em_pc = "idle"

\* the Lua emitter at rest
LuIdle ==
  /\ lu_spec = DefaultSpec /\ lu_property = {} /\ lu_known = {} /\ lu_i = 0
  /\ lu_out = <<>> /\ lu_pc = "idle"

\* main at rest
DpIdle ==
  /\ dp_argv = <<>> /\ dp_parse = [status |-> "none"] /\ dp_backend_error = ""
  /\ dp_specs = 0 /\ dp_i = 0 /\ dp_called = <<>> /\ dp_line = "" /\ dp_exit = NullOpt
  /\ dp_pc = "idle"

\* the longest attrs / imports / validations list of a sample Spec
MaxItems == 2

\* names and messages: plain, with a blank, a quote, a backslash, a line
\* feed, and the word the format uses for an absent field
StringPool ==
  {<<"a">>, <<"b", " ", "c">>, <<"q", "\"">>, <<"x", "\\", "y">>, <<"l", "\n", "m">>,
   None}

UpTo(pool, n) == UNION {[1..k -> pool] : k \in 0..n}

ExprPool ==
  {ExprInt(4), ExprInt(-1), ExprBool(TRUE), ExprName(<<"a">>),
   ExprUnary(<<"-">>, ExprName(<<"n">>)),
   ExprBinary(<<"=", "=">>, ExprName(<<"_">>), ExprInt(0))}

AttrPool ==
  LET A(id) == [DefaultAttr EXCEPT !.id = id]
  IN {A(<<"a">>),
      A(<<"b", " ", "c">>),
      [A(<<"a">>) EXCEPT !.type = PrimitiveRef("kU4"), !.endian_override = Some("kBe")],
      [A(<<"a">>) EXCEPT !.type = PrimitiveRef("kBytes"), !.size_expr = Some(ExprInt(4))],
      [A(<<"a">>) EXCEPT !.type = PrimitiveRef("kStr"), !.size_expr = Some(ExprInt(4)),
                         !.encoding = Some(<<"U", "T", "F", "-", "8">>)],
      [A(<<"a">>) EXCEPT !.enum_name = Some(<<"e">>)],
      [A(<<"a">>) EXCEPT !.type = UserRef(<<"t">>)],
      [A(<<"a">>) EXCEPT !.type = UserRef(<<"z">>)],
      [A(<<"a">>) EXCEPT !.if_expr = Some(ExprBool(TRUE))],
      [A(<<"a">>) EXCEPT !.repeat = "kEos"],
      [A(<<"a">>) EXCEPT !.repeat = "kExpr", !.repeat_expr = Some(ExprInt(4))],
      [A(<<"a">>) EXCEPT !.repeat = "kExpr"],
      [A(<<"a">>) EXCEPT !.repeat = "kUntil",
         !.repeat_expr = Some(ExprBinary(<<"=", "=">>, ExprName(<<"_">>), ExprInt(0)))],
      [A(<<"a">>) EXCEPT !.switch_on = Some(ExprName(<<"a">>)),
         !.switch_cases = <<[match_expr |-> Some(ExprInt(4)), type |-> PrimitiveRef("kU2")],
                            [match_expr |-> NullOpt, type |-> PrimitiveRef("kU1")]>>]}

\* the Spec the samples vary: one alias type t and one enum e
BaseSpec ==
  [DefaultSpec EXCEPT
     !.name = <<"r">>,
     !.types = <<[name |-> <<"t">>, type |-> PrimitiveRef("kU2")]>>,
     !.enums = <<[name |-> <<"e">>, values |-> <<[value |-> 1, name |-> <<"x">>]>>]>>]

SampleSpecs ==
  {[BaseSpec EXCEPT !.name = n, !.default_endian = e] :
     n \in StringPool \cup {<<>>}, e \in Endians}
  \cup {[BaseSpec EXCEPT !.imports = i] : i \in UpTo(StringPool, MaxItems)}
  \cup UNION {{[BaseSpec EXCEPT !.types = <<[name |-> n, type |-> t]>>] :
                 t \in {PrimitiveRef("kS8"), UserRef(<<"r">>), UserRef(n)}} :
               n \in StringPool}
  \cup {[BaseSpec EXCEPT !.attrs = a] : a \in UpTo(AttrPool, MaxItems)}
  \cup UNION {{[BaseSpec EXCEPT !.enums = <<[name |-> n, values |-> v]>>,
                                !.attrs = <<[DefaultAttr EXCEPT !.id = <<"a">>,
                                                                !.enum_name = Some(n)]>>] :
                 v \in {<<>>, <<[value |-> -1, name |-> n],
                                [value |-> 10, name |-> <<"y">>]>>}} :
               n \in StringPool}
  \cup {[BaseSpec EXCEPT !.instances = <<[id |-> n, value_expr |-> x]>>] :
          n \in StringPool, x \in ExprPool}
  \cup {[BaseSpec EXCEPT !.validations = v] :
          v \in UpTo({[target |-> <<"a">>, condition_expr |-> ExprBool(TRUE),
                       message |-> m] : m \in StringPool}, MaxItems)}

RtInit ==
  /\ spec_in \in SampleSpecs
  /\ encoded = <<>>
  /\ decoded = DefaultSpec
  /\ parsed = Ok
  /\ reencoded = <<>>
  /\ rt_pc = "built"
  /\ LdIdle /\ CgIdle /\ ExIdle /\ GnIdle /\ VaIdle /\ ClIdle /\ MnIdle /\ FeIdle /\ KsIdle /\ EmIdle /\ LuIdle /\ DpIdle

\* const std::string encoded = Serialize(spec);
RtSerialize ==
  /\ rt_pc = "built"
  /\ encoded' = Serialize(spec_in)
  /\ rt_pc' = "encoded"
  /\ UNCHANGED <<spec_in, decoded, parsed, reencoded, rt_rest>>

\* Spec decoded; auto parsed = Deserialize(encoded, &decoded);
RtDeserialize ==
  /\ rt_pc = "encoded"
  /\ LET d == Deserialize(encoded, DefaultSpec, TRUE)
     IN /\ decoded' = d.out
        /\ parsed' = d.res
  /\ rt_pc' = "decoded"
  /\ UNCHANGED <<spec_in, encoded, reencoded, rt_rest>>

\* const std::string reencoded = Serialize(decoded);
RtReserialize ==
  /\ rt_pc = "decoded"
  /\ parsed.ok
  /\ reencoded' = Serialize(decoded)
  /\ rt_pc' = "reencoded"
  /\ UNCHANGED <<spec_in, encoded, decoded, parsed, rt_rest>>

RtNext == RtSerialize \/ RtDeserialize \/ RtReserialize



----------------------------------------------------------------------------
(* Claims about the round trip                                             *)

\* C1: for every Spec S that Validate accepts, Deserialize(Serialize(S))
\* succeeds, and serializing the Spec it yields gives Serialize(S) again,
\* byte for byte.
C1_RoundTripStable ==
  Validate(spec_in).ok =>
    /\ (rt_pc = "decoded" => parsed.ok)
    /\ (rt_pc = "reencoded" => reencoded = encoded)

\* C2: for every Spec S that Validate accepts, the attrs of
\* Deserialize(Serialize(S)) are the attrs of S: same count and order, and
\* every field of every attr (type, endian override, size_expr, enum_name,
\* encoding, if_expr, repeat kind, repeat_expr, switch_on, switch cases).
C2_AttrsSurvive ==
  (rt_pc = "decoded" /\ Validate(spec_in).ok /\ parsed.ok) =>
    decoded.attrs = spec_in.attrs

----------------------------------------------------------------------------
(* ir.cpp: LoadFromFileWithImports.  A call of one of the two recursive     *)
(* lambdas is a frame [fn, file_path, current, i, resolved, pc] on calls:   *)
(* pc is "enter" before the first statement, "loop" at the head of the     *)
(* loop over the imports, i the import it is at, and "wait" during the     *)
(* recursive call for import i; ret holds what the call that ended last    *)
(* returned until the caller has looked at it.                             *)

\* the longest import list of the root file of a sample
MaxImports == 2

\* the text of a file that declares the given names
FileText(name, imports, types, enums) ==
  Serialize([DefaultSpec EXCEPT
               !.name = name, !.imports = imports,
               !.types = [i \in DOMAIN types |->
                            [name |-> types[i], type |-> PrimitiveRef("kU1")]],
               !.enums = [i \in DOMAIN enums |->
                            [name |-> enums[i],
                             values |-> <<[value |-> 1, name |-> <<"v">>]>>]]])

\* the files of the samples: three in /d, one in /e
FilePaths ==
  [a |-> <<"/", "d", "/", "a">>, b |-> <<"/", "d", "/", "b">>,
   c |-> <<"/", "d", "/", "c">>, x |-> <<"/", "e", "/", "x">>]

\* file systems that differ in their import graph; no two files declare
\* the same name
GraphSamples ==
  {(FilePaths.a :> FileText(<<"a">>, ia, <<<<"t", "a">>>>, <<<<"e", "a">>>>))
   @@ (FilePaths.b :> FileText(<<"b">>, ib, <<<<"t", "b">>>>, <<<<"e", "b">>>>))
   @@ (FilePaths.c :> FileText(<<"c">>, ic, <<<<"t", "c">>>>, <<<<"e", "c">>>>))
   @@ (FilePaths.x :> FileText(<<"x">>, <<<<"\\", "d", "\\", "b">>>>, <<>>, <<>>)) :
     ia \in UpTo({<<"b">>, <<"c">>, <<"x">>}, MaxImports),
     ib \in UpTo({<<"a">>, <<"b">>, <<"c">>, <<".", ".", "/", "d", "/", "a">>}, 1),
     ic \in UpTo({<<"b">>, <<"z">>}, 1)}

\* file systems with the imports a -> b, c and b -> c that differ in the
\* names the files declare
NameSamples ==
  {(FilePaths.a :> FileText(<<"a">>, <<<<"b">>, <<"c">>>>, ta, <<<<"e">>>>))
   @@ (FilePaths.b :> FileText(nb, <<<<"c">>>>, tb, eb))
   @@ (FilePaths.c :> FileText(nc, <<>>, tc, ec)) :
     ta \in {<<<<"t">>>>, <<<<"t">>, <<"t">>>>},
     nb \in {<<"b">>, <<"a">>, <<"t">>}, tb \in {<<>>, <<<<"t">>>>, <<<<"u">>>>},
     eb \in {<<>>, <<<<"f">>>>},
     nc \in {<<"c">>, <<"u">>}, tc \in {<<<<"u">>>>, <<<<"w">>>>},
     ec \in {<<<<"f">>>>, <<<<"e">>>>}}

\* file systems in which every file declares two types and two enums; the
\* imports are a -> b, c or a -> c, b, and b -> c or c -> b
OrderSamples ==
  LET Two(kind, name) == <<<<kind, name>>, <<kind, name, name>>>>
      File(name, imports) ==
        FileText(<<name>>, imports, Two("t", name), Two("e", name))
  IN {(FilePaths.a :> File("a", ia))
      @@ (FilePaths.b :> File("b", ib))
      @@ (FilePaths.c :> File("c", ic)) :
        ia \in {<<<<"b">>, <<"c">>>>, <<<<"c">>, <<"b">>>>},
        ib \in {<<>>, <<<<"c">>>>},
        ic \in {<<>>, <<<<"b">>>>}}

\* file systems with the diamond a -> b, c and b -> x <- c: x is imported
\* under one spelling or two, declares a name of its own or one of a, and
\* imports nothing or closes a cycle through b
DiamondSamples ==
  {(FilePaths.a :> FileText(<<"a">>, <<<<"b">>, <<"c">>>>, <<<<"t", "a">>>>, <<<<"e", "a">>>>))
   @@ (FilePaths.b :> FileText(<<"b">>, <<ib>>, <<<<"t", "b">>>>, <<>>))
   @@ (FilePaths.c :> FileText(<<"c">>, ic, <<<<"t", "c">>>>, <<>>))
   @@ (FilePaths.x :> FileText(<<"x">>, ix, <<tx>>, <<<<"e", "x">>>>)) :
     ib \in {<<"x">>, <<".", ".", "/", "e", "/", "x">>},
     ic \in {<<>>, <<<<"x">>>>},
     ix \in {<<>>, <<<<"\\", "d", "\\", "b">>>>},
     tx \in {<<"t", "x">>, <<"t", "a">>}}

\* what LoadFromFileWithImports is called on: the file system, path and
\* import_paths
LoaderInputs ==
  {[files |-> f, path |-> FilePaths.a, import_paths |-> <<<<>>, <<"/", "e">>>>] :
     f \in GraphSamples \cup NameSamples \cup OrderSamples \cup DiamondSamples}
  \cup {[files |-> f, path |-> q, import_paths |-> <<>>] :
          f \in {(FilePaths.a :> FileText(<<"a">>, <<<<"x">>>>, <<>>, <<>>))
                   @@ (FilePaths.x :> FileText(<<"x">>, <<>>, <<>>, <<>>)),
                 (FilePaths.a :> FileText(<<"a">>, <<<<"b">>>>, <<>>, <<>>))
                   @@ (FilePaths.b :> <<"K", "S">>),
                 (FilePaths.a :> FileText(<<>>, <<>>, <<>>, <<>>))},
          q \in {FilePaths.a, <<"/", "d", "/", ".", "/", "a">>, FilePaths.c}}

\* what the Spec the caller passes as out holds before the call: nothing,
\* as in ir_roundtrip_test.cpp, or the Spec of an earlier load
CallerSpecs ==
  {DefaultSpec,
   [DefaultSpec EXCEPT !.name = <<"o">>,
                       !.types = <<[name |-> <<"t", "o">>, type |-> PrimitiveRef("kU1")]>>]}

LdInit ==
  /\ \E input \in LoaderInputs :
       /\ ld_files = input.files
       /\ ld_path = input.path
       /\ ld_import_paths = input.import_paths
  /\ root = <<>>
  /\ loaded = <<>> /\ visiting = {} /\ stack = <<>>
  /\ merged = DefaultSpec /\ merged_files = {}
  /\ seen_type_names = {} /\ seen_enum_names = {}
  /\ calls = <<>> /\ ret = NullOpt /\ ld_out \in CallerSpecs /\ ld_result = Ok
  /\ ld_pc = "start"
  /\ RtIdle /\ CgIdle /\ ExIdle /\ GnIdle /\ VaIdle /\ ClIdle /\ MnIdle /\ FeIdle /\ KsIdle /\ EmIdle /\ LuIdle /\ DpIdle

\* a call of dfs or merge_deps on a file
Call(fn, file_path) ==
  [fn |-> fn, file_path |-> file_path, current |-> DefaultSpec, i |-> 1,
   resolved |-> <<>>, pc |-> IF fn = "dfs" THEN "enter" ELSE "loop"]

\* the innermost active call
Top == calls[Len(calls)]

\* root = weakly_canonical(path); auto walk = dfs(root): the call
LdStart ==
  /\ ld_pc = "start"
  /\ root' = WeaklyCanonical(ld_path)
  /\ calls' = <<Call("dfs", WeaklyCanonical(ld_path))>>
  /\ ld_pc' = "walk"
  /\ UNCHANGED <<ld_files, ld_path, ld_import_paths, loaded, visiting, stack, merged,
                 merged_files, seen_type_names, seen_enum_names, ret, ld_out, ld_result,
                 ld_rest>>

\* dfs, from its first statement to the loop over the imports
DfsEnter ==
  /\ ld_pc = "walk" /\ calls # <<>> /\ Top.fn = "dfs" /\ Top.pc = "enter"
  /\ LET Return(r) ==
           /\ calls' = SubSeq(calls, 1, Len(calls) - 1)
           /\ ret' = Some(r)
           /\ UNCHANGED <<visiting, stack>>
         Loaded(load) ==
           IF ~load.res.ok THEN Return(load.res)
           ELSE /\ visiting' = visiting \cup {Top.file_path}
                /\ stack' = Append(stack, Top.file_path)
                /\ calls' = [calls EXCEPT ![Len(calls)].current = load.out,
                                          ![Len(calls)].pc = "loop"]
                /\ UNCHANGED ret
     IN IF Top.file_path \in DOMAIN loaded THEN Return(Ok)
        ELSE IF Top.file_path \in visiting
        THEN Return(ErrAt("import cycle detected", JoinChain(Append(stack, Top.file_path))))
        ELSE IF Top.file_path \notin DOMAIN ld_files
        THEN Return(ErrAt("failed to open IR file", Top.file_path))
        ELSE Loaded(Deserialize(ld_files[Top.file_path], DefaultSpec, FALSE))
  /\ UNCHANGED <<ld_files, ld_path, ld_import_paths, root, loaded, merged, merged_files,
                 seen_type_names, seen_enum_names, ld_out, ld_result, ld_pc, ld_rest>>

\* dfs: one import of the loop, up to the recursive call
DfsImport ==
  /\ ld_pc = "walk" /\ calls # <<>> /\ Top.fn = "dfs" /\ Top.pc = "loop"
  /\ Top.i <= Len(Top.current.imports)
  /\ LET Resolved(resolve) ==
           IF ~resolve.res.ok
           THEN /\ stack' = SubSeq(stack, 1, Len(stack) - 1)
                /\ visiting' = visiting \ {Top.file_path}
                /\ calls' = SubSeq(calls, 1, Len(calls) - 1)
                /\ ret' = Some(resolve.res)
           ELSE /\ calls' = Append([calls EXCEPT ![Len(calls)].pc = "wait",
                                                 ![Len(calls)].resolved = resolve.resolved],
                                   Call("dfs", resolve.resolved))
                /\ UNCHANGED <<stack, visiting, ret>>
     IN Resolved(ResolveImportPath(Top.current.imports[Top.i], Top.file_path,
                                   ld_import_paths, DOMAIN ld_files))
  /\ UNCHANGED <<ld_files, ld_path, ld_import_paths, root, loaded, merged, merged_files,
                 seen_type_names, seen_enum_names, ld_out, ld_result, ld_pc, ld_rest>>

\* dfs: the recursive call has returned
DfsChild ==
  /\ ld_pc = "walk" /\ calls # <<>> /\ Top.fn = "dfs" /\ Top.pc = "wait"
  /\ ret # NullOpt
  /\ IF ~ValueOf(ret).ok
     THEN /\ stack' = SubSeq(stack, 1, Len(stack) - 1)
          /\ visiting' = visiting \ {Top.file_path}
          /\ calls' = SubSeq(calls, 1, Len(calls) - 1)
          /\ UNCHANGED ret
     ELSE /\ calls' = [calls EXCEPT ![Len(calls)].pc = "loop",
                                    ![Len(calls)].i = Top.i + 1]
          /\ ret' = NullOpt
          /\ UNCHANGED <<stack, visiting>>
  /\ UNCHANGED <<ld_files, ld_path, ld_import_paths, root, loaded, merged, merged_files,
                 seen_type_names, seen_enum_names, ld_out, ld_result, ld_pc, ld_rest>>

\* dfs with the stack.pop_back() at its end left out
DfsDoneKeepsStack ==
  /\ ld_pc = "walk" /\ calls # <<>> /\ Top.fn = "dfs" /\ Top.pc = "loop"
  /\ Top.i > Len(Top.current.imports)
  /\ loaded' = (Top.file_path :> Top.current) @@ loaded
  /\ visiting' = visiting \ {Top.file_path}
  /\ calls' = SubSeq(calls, 1, Len(calls) - 1)
  /\ ret' = Some(Ok)
  /\ UNCHANGED <<ld_files, ld_path, ld_import_paths, root, stack, merged, merged_files,
                 seen_type_names, seen_enum_names, ld_out, ld_result, ld_pc, ld_rest>>

\* dfs: the loop is through
DfsDone ==
  /\ ld_pc = "walk" /\ calls # <<>> /\ Top.fn = "dfs" /\ Top.pc = "loop"
  /\ Top.i > Len(Top.current.imports)
  /\ loaded' = (Top.file_path :> Top.current) @@ loaded
  /\ stack' = SubSeq(stack, 1, Len(stack) - 1)
  /\ visiting' = visiting \ {Top.file_path}
  /\ calls' = SubSeq(calls, 1, Len(calls) - 1)
  /\ ret' = Some(Ok)
  /\ UNCHANGED <<ld_files, ld_path, ld_import_paths, root, merged, merged_files,
                 seen_type_names, seen_enum_names, ld_out, ld_result, ld_pc, ld_rest>>

\* dfs(root) has returned: the walk failed, or merged and the seen names
\* are set up from the root and merge_deps(root) is called
LdWalked ==
  /\ ld_pc = "walk" /\ calls = <<>> /\ ret # NullOpt
  /\ IF ~ValueOf(ret).ok
     THEN /\ ld_result' = ValueOf(ret)
          /\ ld_pc' = "done"
          /\ UNCHANGED <<merged, seen_type_names, seen_enum_names, calls>>
     ELSE /\ merged' = loaded[root]
          /\ seen_type_names' =
               {loaded[root].name}
                 \cup {loaded[root].types[i].name : i \in DOMAIN loaded[root].types}
          /\ seen_enum_names' =
               {loaded[root].enums[i].name : i \in DOMAIN loaded[root].enums}
          /\ calls' = <<Call("merge_deps", root)>>
          /\ ld_pc' = "merge"
          /\ UNCHANGED ld_result
  /\ ret' = NullOpt
  /\ UNCHANGED <<ld_files, ld_path, ld_import_paths, root, loaded, visiting, stack,
                 merged_files, ld_out, ld_rest>>

\* merge_deps with the look-up in merged_files left out
MergeImportUnchecked ==
  /\ ld_pc = "merge" /\ calls # <<>> /\ Top.pc = "loop"
  /\ Top.i <= Len(loaded[Top.file_path].imports)
  /\ LET Resolved(resolve) ==
           IF ~resolve.res.ok
           THEN /\ calls' = SubSeq(calls, 1, Len(calls) - 1)
                /\ ret' = Some(resolve.res)
                /\ UNCHANGED merged_files
           ELSE /\ merged_files' = merged_files \cup {resolve.resolved}
                /\ calls' = Append([calls EXCEPT ![Len(calls)].pc = "wait",
                                                 ![Len(calls)].resolved = resolve.resolved],
                                   Call("merge_deps", resolve.resolved))
                /\ UNCHANGED ret
     IN Resolved(ResolveImportPath(loaded[Top.file_path].imports[Top.i], Top.file_path,
                                   ld_import_paths, DOMAIN ld_files))
  /\ UNCHANGED <<ld_files, ld_path, ld_import_paths, root, loaded, visiting, stack, merged,
                 seen_type_names, seen_enum_names, ld_out, ld_result, ld_pc, ld_rest>>

\* merge_deps: one import of the loop, up to the recursive call
MergeImport ==
  /\ ld_pc = "merge" /\ calls # <<>> /\ Top.pc = "loop"
  /\ Top.i <= Len(loaded[Top.file_path].imports)
  /\ LET Resolved(resolve) ==
           IF ~resolve.res.ok
           THEN /\ calls' = SubSeq(calls, 1, Len(calls) - 1)
                /\ ret' = Some(resolve.res)
                /\ UNCHANGED merged_files
           ELSE IF resolve.resolved \in merged_files
           THEN /\ calls' = [calls EXCEPT ![Len(calls)].i = Top.i + 1]
                /\ UNCHANGED <<merged_files, ret>>
           ELSE /\ merged_files' = merged_files \cup {resolve.resolved}
                /\ calls' = Append([calls EXCEPT ![Len(calls)].pc = "wait",
                                                 ![Len(calls)].resolved = resolve.resolved],
                                   Call("merge_deps", resolve.resolved))
                /\ UNCHANGED ret
     IN Resolved(ResolveImportPath(loaded[Top.file_path].imports[Top.i], Top.file_path,
                                   ld_import_paths, DOMAIN ld_files))
  /\ UNCHANGED <<ld_files, ld_path, ld_import_paths, root, loaded, visiting, stack, merged,
                 seen_type_names, seen_enum_names, ld_out, ld_result, ld_pc, ld_rest>>

\* merge_deps: the recursive call has returned; the names of the
\* dependency are entered and its types and enums appended to merged
MergeDep ==
  /\ ld_pc = "merge" /\ calls # <<>> /\ Top.pc = "wait" /\ ret # NullOpt
  /\ LET Duplicate(kind, name) ==
           /\ calls' = SubSeq(calls, 1, Len(calls) - 1)
           /\ ret' = Some(ErrAt("duplicate symbol across imports", kind \o name))
         Enums(types, enums) ==
           /\ seen_type_names' = types.seen
           /\ seen_enum_names' = enums.seen
           /\ merged' = [merged EXCEPT !.types = types.list, !.enums = enums.list]
           /\ IF HasValue(types.dup) THEN Duplicate(<<"t", "y", "p", "e", " ">>, ValueOf(types.dup))
              ELSE IF HasValue(enums.dup)
              THEN Duplicate(<<"e", "n", "u", "m", " ">>, ValueOf(enums.dup))
              ELSE /\ calls' = [calls EXCEPT ![Len(calls)].pc = "loop",
                                             ![Len(calls)].i = Top.i + 1]
                   /\ ret' = NullOpt
         Types(dep, types) ==
           Enums(types, IF HasValue(types.dup)
                        THEN [dup |-> NullOpt, seen |-> seen_enum_names,
                              list |-> merged.enums]
                        ELSE MergeSymbols(dep.enums, seen_enum_names, merged.enums))
         Dep(dep) ==
           IF dep.name \in seen_type_names
           THEN /\ Duplicate(<<"t", "y", "p", "e", " ">>, dep.name)
                /\ UNCHANGED <<merged, seen_type_names, seen_enum_names>>
           ELSE Types(dep, MergeSymbols(dep.types, seen_type_names \cup {dep.name},
                                        merged.types))
     IN IF ~ValueOf(ret).ok
        THEN /\ calls' = SubSeq(calls, 1, Len(calls) - 1)
             /\ UNCHANGED <<ret, merged, seen_type_names, seen_enum_names>>
        ELSE Dep(loaded[Top.resolved])
  /\ UNCHANGED <<ld_files, ld_path, ld_import_paths, root, loaded, visiting, stack,
                 merged_files, ld_out, ld_result, ld_pc, ld_rest>>

\* merge_deps: the loop is through
MergeDone ==
  /\ ld_pc = "merge" /\ calls # <<>> /\ Top.pc = "loop"
  /\ Top.i > Len(loaded[Top.file_path].imports)
  /\ calls' = SubSeq(calls, 1, Len(calls) - 1)
  /\ ret' = Some(Ok)
  /\ UNCHANGED <<ld_files, ld_path, ld_import_paths, root, loaded, visiting, stack, merged,
                 merged_files, seen_type_names, seen_enum_names, ld_out, ld_result, ld_pc,
                 ld_rest>>

\* the end of the load with *out = merged ahead of Validate(merged)
LdFinishWritesFirst ==
  /\ ld_pc = "merge" /\ calls = <<>> /\ ret # NullOpt
  /\ LET Valid(valid) ==
           /\ ld_result' = valid
           /\ ld_out' = merged
     IN IF ~ValueOf(ret).ok
        THEN ld_result' = ValueOf(ret) /\ UNCHANGED ld_out
        ELSE Valid(Validate(merged))
  /\ ret' = NullOpt
  /\ ld_pc' = "done"
  /\ UNCHANGED <<ld_files, ld_path, ld_import_paths, root, loaded, visiting, stack, merged,
                 merged_files, seen_type_names, seen_enum_names, calls, ld_rest>>

\* merge_deps(root) has returned: Validate(merged) and *out = merged
LdFinish ==
  /\ ld_pc = "merge" /\ calls = <<>> /\ ret # NullOpt
  /\ LET Valid(valid) ==
           /\ ld_result' = valid
           /\ ld_out' = IF valid.ok THEN merged ELSE ld_out
     IN IF ~ValueOf(ret).ok
        THEN ld_result' = ValueOf(ret) /\ UNCHANGED ld_out
        ELSE Valid(Validate(merged))
  /\ ret' = NullOpt
  /\ ld_pc' = "done"
  /\ UNCHANGED <<ld_files, ld_path, ld_import_paths, root, loaded, visiting, stack, merged,
                 merged_files, seen_type_names, seen_enum_names, calls, ld_rest>>

LdNext ==
  \/ LdStart \/ DfsEnter \/ DfsImport \/ DfsChild \/ DfsDone \/ LdWalked
  \/ MergeImport \/ MergeDep \/ MergeDone \/ LdFinish

----------------------------------------------------------------------------
(* Claims about the loader.  They are stated against the import graph of   *)
(* the file system, read off the files one by one: for every file, whether *)
(* it parses and all its imports resolve, the files it imports, and the    *)
(* Spec it holds.                                                          *)

ImportGraph ==
  [f \in DOMAIN ld_files |->
     LET Read(d) ==
           LET Target(i) ==
                 ResolveImportPath(d.out.imports[i], f, ld_import_paths, DOMAIN ld_files)
           IN [ok |-> d.res.ok /\ \A i \in DOMAIN d.out.imports : Target(i).res.ok,
               to |-> IF d.res.ok
                      THEN {Target(i).resolved :
                              i \in {j \in DOMAIN d.out.imports : Target(j).res.ok}}
                      ELSE {},
               spec |-> d.out]
     IN Read(Deserialize(ld_files[f], DefaultSpec, FALSE))]

\* the files of from and those they import, directly or not
RECURSIVE Reachable(_, _)
Reachable(g, from) ==
  LET Grown(more) == IF more \subseteq from THEN from ELSE Reachable(g, from \cup more)
  IN Grown(UNION {g[f].to : f \in from \cap DOMAIN g})

\* every file the root leads to is there, parses, and has its imports resolve
Sound(g) ==
  \A f \in Reachable(g, {WeaklyCanonical(ld_path)}) : f \in DOMAIN g /\ g[f].ok

\* some file the root leads to imports itself, directly or not
Cyclic(g) ==
  \E f \in Reachable(g, {WeaklyCanonical(ld_path)}) \cap DOMAIN g :
    f \in Reachable(g, g[f].to)

\* C3: the visit stack holds the files of the dfs calls under way, root
\* first, and visiting is the set of them; a load that ends with "import
\* cycle detected" names a chain of files that starts at the root, follows
\* the imports, and ends at a file that is on the chain already (so it is
\* never reported for an acyclic graph); and if the files the root leads to
\* hold a cycle, and all of them load and resolve, the load ends with it.
C3_ImportCycle ==
  LET ChainOf(g) ==
        \E n \in 2..(Cardinality(DOMAIN ld_files) + 1) :
          \E chain \in [1..n -> DOMAIN ld_files] :
            /\ ld_result.detail = JoinChain(chain)
            /\ chain[1] = root
            /\ \A k \in 1..(n - 1) : chain[k + 1] \in g[chain[k]].to
            /\ \E k \in 1..(n - 1) : chain[k] = chain[n]
            /\ \A j, k \in 1..(n - 1) : chain[j] = chain[k] => j = k
      Claim(g) ==
        /\ (ld_result.error = "import cycle detected" => ChainOf(g))
        /\ (Sound(g) /\ Cyclic(g) => ld_result.error = "import cycle detected")
  IN /\ visiting = {stack[k] : k \in DOMAIN stack}
     /\ stack = [k \in 1..Len(stack) |-> calls[k].file_path]
     /\ \A k \in DOMAIN calls :
          calls[k].fn = "dfs" /\ calls[k].pc # "enter" => k <= Len(stack)
     /\ (ld_pc = "done" => Claim(ImportGraph))

\* C3 happens: a load has ended with a cycle through three files
C3_Witness ==
  /\ ld_pc = "done"
  /\ ld_result.error = "import cycle detected"
  /\ ld_result.detail =
       JoinChain(<<FilePaths.a, FilePaths.x, FilePaths.b, FilePaths.c, FilePaths.b>>)

\* the names two or more Specs of the import closure declare, or a
\* dependency has as its Spec name next to a type or Spec of that name
Collisions(g) ==
  LET closure == Reachable(g, {WeaklyCanonical(ld_path)})
      TypeNames(f) == {g[f].spec.types[i].name : i \in DOMAIN g[f].spec.types}
      EnumNames(f) == {g[f].spec.enums[i].name : i \in DOMAIN g[f].spec.enums}
  IN {n \in UNION {TypeNames(f) \cup EnumNames(f) \cup {g[f].spec.name} : f \in closure} :
        \E f, h \in closure :
          /\ f # h
          /\ \/ n \in TypeNames(f) \cap TypeNames(h)
             \/ n \in EnumNames(f) \cap EnumNames(h)
             \/ /\ f # WeaklyCanonical(ld_path)
                /\ n = g[f].spec.name
                /\ n \in TypeNames(h) \cup {g[h].spec.name}}

ImportList(g, f) ==
  [i \in DOMAIN g[f].spec.imports |->
     ResolveImportPath(g[f].spec.imports[i], f, ld_import_paths, DOMAIN ld_files).resolved]

\* the files reached from the imports of f from the k-th on, in DFS
\* post-order: an import that was not met before (done holds the files met)
\* comes after the files its own imports add
RECURSIVE PostOrder(_, _, _, _)
RECURSIVE PostOrderUnder(_, _, _)
PostOrder(g, f, k, done) ==
  IF k > Len(ImportList(g, f)) THEN done
  ELSE IF \E j \in DOMAIN done : done[j] = ImportList(g, f)[k]
  THEN PostOrder(g, f, k + 1, done)
  ELSE PostOrder(g, f, k + 1, PostOrderUnder(g, ImportList(g, f)[k], done))

\* done, then what the imports of f add, then f
PostOrderUnder(g, f, done) == Append(PostOrder(g, f, 1, done), f)

\* C18: a load that succeeds hands back the types and the enums of the
\* root followed by those of the imported files in DFS post-order of the
\* import graph, the imports taken in the order they are declared, each
\* file's own symbols in the order of its source
C18_MergeOrder ==
  LET Symbols(g, files, field) == Concat([j \in DOMAIN files |-> g[files[j]].spec[field]])
      Claim(g, files) ==
        /\ ld_out.types = g[root].spec.types \o Symbols(g, files, "types")
        /\ ld_out.enums = g[root].spec.enums \o Symbols(g, files, "enums")
  IN (ld_pc = "done" /\ ld_result.ok) => Claim(ImportGraph, PostOrder(ImportGraph, root, 1, <<>>))

\* C18 happens: the root imports b and c, b imports c, and the load has
\* handed back the symbols of c before those of b
C18_Witness ==
  /\ ld_pc = "done" /\ ld_result.ok
  /\ PostOrder(ImportGraph, root, 1, <<>>) = <<FilePaths.c, FilePaths.b>>
  /\ ImportList(ImportGraph, root) = <<FilePaths.b, FilePaths.c>>
  /\ Len(ld_out.types) = 6 /\ Len(ld_out.enums) = 6

\* C27: the Spec the caller passed as out changes only in the step in
\* which the load returns ok, and then to the merged Spec; a load that
\* fails, at whatever step, leaves it as it was before the call.
C27_OutOnlyOnOk ==
  [][ld_out' # ld_out => (ld_pc' = "done" /\ ld_result'.ok /\ ld_out' = merged)]_ld_vars

\* C27 happens: the walk and the merge went through, Validate rejected the
\* merged Spec, and out still holds the Spec of an earlier load
C27_Witness ==
  /\ ld_pc = "done" /\ ~ld_result.ok
  /\ merged_files # {} /\ Len(merged.types) > 1
  /\ ld_result.error \notin {"duplicate symbol across imports", "import cycle detected",
                               "failed to open IR file"}
  /\ ld_out \in CallerSpecs \ {DefaultSpec}
  /\ ld_out # merged

\* the files other than the root that two or more files of the import
\* closure import
Shared(g) ==
  LET closure == Reachable(g, {WeaklyCanonical(ld_path)}) \cap DOMAIN g
  IN {f \in closure \ {WeaklyCanonical(ld_path)} :
        Cardinality({h \in closure : f \in g[h].to}) >= 2}

\* C26: a file that is loaded is never parsed again by a later dfs call;
\* and when the files the root leads to all load and resolve, hold no
\* cycle, and one of them is imported by two or more of them, the load
\* does not end with "import cycle detected", it does not end with
\* "duplicate symbol across imports" unless two files collide on a name
\* or an imported file declares a name twice, and when it succeeds every
\* type and enum of a shared file is in the Spec handed back exactly once.
C26_DiamondOnce ==
  LET Count(items, name) == Cardinality({i \in DOMAIN items : items[i].name = name})
      Once(items, from) == \A i \in DOMAIN from : Count(items, from[i].name) = 1
      Clean(g) ==
        /\ Collisions(g) = {}
        /\ \A f \in Reachable(g, {WeaklyCanonical(ld_path)}) \ {WeaklyCanonical(ld_path)} :
             /\ Once(g[f].spec.types, g[f].spec.types)
             /\ Once(g[f].spec.enums, g[f].spec.enums)
             /\ Count(g[f].spec.types, g[f].spec.name) = 0
      Claim(g) ==
        (Sound(g) /\ ~Cyclic(g) /\ Shared(g) # {}) =>
          /\ ld_result.error # "import cycle detected"
          /\ (Clean(g) => ld_result.error # "duplicate symbol across imports")
          /\ (ld_result.ok =>
                \A f \in Shared(g) : /\ Once(ld_out.types, g[f].spec.types)
                                      /\ Once(ld_out.enums, g[f].spec.enums))
  IN /\ \A k \in DOMAIN calls :
          (calls[k].fn = "dfs" /\ calls[k].pc # "enter")
            => calls[k].file_path \notin DOMAIN loaded
     /\ (ld_pc = "done" => Claim(ImportGraph))

\* C26 happens: x is imported by b and by c under two spellings, and the
\* load has succeeded with the four types and three enums of the diamond
C26_Witness ==
  /\ ld_pc = "done" /\ ld_result.ok
  /\ Shared(ImportGraph) = {FilePaths.x}
  /\ FilePaths.x \in ImportGraph[FilePaths.b].to \cap ImportGraph[FilePaths.c].to
  /\ Len(loaded[FilePaths.b].imports[1]) > 1
  /\ Len(ld_out.types) = 4 /\ Len(ld_out.enums) = 2

----------------------------------------------------------------------------

----------------------------------------------------------------------------
(* EmitCppStl17FromIr on in-memory Specs, as codegen_test.cpp calls it     *)

CgExprPool ==
  {ExprInt(3), ExprName(<<"a">>), ExprName(<<"n">>),
   ExprBinary(<<"=", "=">>, ExprName(<<"_">>), ExprInt(0)),
   ExprBinary(<<"?">>, ExprName(<<"a">>), ExprInt(1)),
   ExprUnary(<<"n", "o", "t">>, ExprBool(TRUE)),
   ExprUnary(<<"+">>, ExprInt(3))}

CgAttrPool ==
  LET A(id) == CgAttr([DefaultAttr EXCEPT !.id = id])
      Case(m, t) == [match_expr |-> m, type |-> t]
  IN {A(<<"a">>), A(<<"b">>),
      [A(<<"b">>) EXCEPT !.type = UserRef(<<"t">>), !.enum_name = Some(<<"e">>)],
      [A(<<"b">>) EXCEPT !.type = UserRef(<<"z">>)],
      [A(<<"b">>) EXCEPT !.type = UserRef(<<"z">>), !.encoding = Some(<<"x">>)],
      [A(<<"b">>) EXCEPT !.type = UserRef(<<"p">>), !.repeat = "kEos"],
      [A(<<"b">>) EXCEPT !.encoding = Some(<<"x">>)],
      [A(<<"b">>) EXCEPT !.type = PrimitiveRef("kStr"), !.encoding = Some(<<"x">>),
                         !.size_expr = Some(ExprName(<<"a">>))],
      [A(<<"b">>) EXCEPT !.type = PrimitiveRef("kBytes"), !.enum_name = Some(<<"e">>)],
      [A(<<"b">>) EXCEPT !.enum_name = Some(<<"f">>)],
      [A(<<"b">>) EXCEPT !.enum_name = Some(<<"m">>)]}
     \cup {[A(<<"b">>) EXCEPT !.if_expr = Some(x)] : x \in CgExprPool}
     \cup {[A(<<"b">>) EXCEPT !.repeat = r, !.repeat_expr = x] :
             r \in {"kExpr", "kUntil"},
             x \in {NullOpt, Some(ExprInt(3)),
                    Some(ExprBinary(<<"=", "=">>, ExprName(<<"_">>), ExprInt(0)))}}
     \cup {[A(<<"b">>) EXCEPT !.switch_on = Some(ExprName(<<"a">>)), !.switch_cases = c] :
             c \in {<<>>,
                    <<Case(Some(ExprInt(1)), PrimitiveRef("kU2")), Case(NullOpt, UserRef(<<"t">>))>>,
                    <<Case(Some(ExprName(<<"a">>)), PrimitiveRef("kU2"))>>,
                    <<Case(Some(ExprInt(1)), PrimitiveRef("kU2")), Case(NullOpt, PrimitiveRef("kU4"))>>,
                    <<Case(NullOpt, PrimitiveRef("kU2")), Case(NullOpt, PrimitiveRef("kU2"))>>,
                    <<Case(Some(ExprInt(1)), UserRef(<<"z">>))>>}}

\* the Spec the samples vary: an alias t of u2, aliases p and q of one
\* another, and the enums e and n::m
CgBaseSpec ==
  [DefaultSpec EXCEPT
     !.name = <<"s">>,
     !.types = <<[name |-> <<"t">>, type |-> PrimitiveRef("kU2")],
                 [name |-> <<"p">>, type |-> UserRef(<<"q">>)],
                 [name |-> <<"q">>, type |-> UserRef(<<"p">>)]>>,
     !.enums = <<[name |-> <<"e">>, values |-> <<[value |-> 1, name |-> <<"x">>]>>],
                 [name |-> <<"n", ":", ":", "m">>, values |-> <<>>]>>]
  @@ [params |-> <<>>]

CgSamples ==
  {[CgBaseSpec EXCEPT !.attrs = a] : a \in UpTo(CgAttrPool, MaxItems)}
  \cup {[CgBaseSpec EXCEPT !.enums = <<[name |-> <<>>, values |-> <<>>]>>]}
  \cup {[CgBaseSpec EXCEPT !.attrs = <<CgAttr([DefaultAttr EXCEPT !.id = <<"a">>])>>,
                           !.params = <<[id |-> <<"n">>, type |-> PrimitiveRef("kU1")]>>,
                           !.instances = i, !.validations = v] :
          i \in UpTo({[CgInstance(<<"i">>) EXCEPT !.value_expr = x] : x \in CgExprPool}
                     \cup {[CgInstance(<<"j">>) EXCEPT !.value_expr = ExprName(<<"i">>)],
                           [CgInstance(<<"j">>) EXCEPT !.kind = "kParse",
                                                       !.pos_expr = Some(ExprName(<<"i">>))],
                           [CgInstance(<<"j">>) EXCEPT !.kind = "kParse",
                                                       !.type = UserRef(<<"z">>),
                                                       !.encoding = Some(<<"x">>)]},
                     MaxItems),
          v \in {<<>>,
                 <<[target |-> <<"j">>, condition_expr |-> ExprBool(TRUE), message |-> <<>>]>>,
                 <<[target |-> <<"a">>, condition_expr |-> ExprName(<<"k">>), message |-> <<>>]>>}}

\* the targets with an Emit*FromIr entry point
EmitTargets == {"cpp_stl", "lua", "wireshark_lua", "python", "ruby"}

CgInit ==
  /\ cg_spec \in CgSamples
  /\ cg_target \in EmitTargets
  /\ cg_env \in {"ok", "no_directory", "no_file"}
  /\ cg_gate = Ok /\ cg_i = 0 /\ cg_read = <<>> /\ cg_absent = {} /\ cg_result = Ok
  /\ cg_first = NullOpt
  /\ cg_fs = <<>>
  /\ cg_pc = "start"
  /\ RtIdle /\ LdIdle /\ ExIdle /\ GnIdle /\ VaIdle /\ ClIdle /\ MnIdle /\ FeIdle /\ KsIdle /\ EmIdle /\ LuIdle /\ DpIdle

\* the emitter with the output directory made ahead of the gate
CgValidateDirFirst ==
  /\ cg_pc = "start"
  /\ LET Open(validate_subset) ==
           /\ cg_gate' = validate_subset
           /\ cg_fs' =
                IF ~validate_subset.ok THEN Append(cg_fs, "create_directories")
                ELSE IF cg_env = "no_directory" \/ cg_target # "cpp_stl"
                THEN Append(cg_fs, "create_directories")
                ELSE IF cg_env = "no_file"
                THEN cg_fs \o <<"create_directories", "ofstream header">>
                ELSE cg_fs \o <<"create_directories", "ofstream header", "ofstream source">>
           /\ cg_result' =
                IF ~validate_subset.ok THEN validate_subset
                ELSE IF cg_env = "no_directory" THEN Err("failed to create output directory")
                ELSE IF cg_env = "no_file" /\ cg_target = "cpp_stl"
                THEN Err("failed to open output file")
                ELSE Ok
           /\ cg_pc' = IF ~validate_subset.ok \/ cg_env = "no_directory" THEN "done"
                       ELSE IF cg_target # "cpp_stl" THEN "render_script"
                       ELSE IF cg_env = "ok" THEN "render" ELSE "done"
     IN Open(ValidateSupportedSubset(cg_spec))
  /\ cg_i' = 1
  /\ UNCHANGED <<cg_spec, cg_target, cg_env, cg_read, cg_absent, cg_first, cg_rest>>

\* EmitCppStl17FromIr up to the two render calls: the gate, the output
\* directory, the two files; EmitScriptTarget up to the call of WriteFile:
\* the gate and the output directory.  cg_fs is the list of the calls the
\* current call has made on the file system.
CgValidate ==
  /\ cg_pc = "start"
  /\ LET Open(validate_subset) ==
           /\ cg_gate' = validate_subset
           /\ cg_fs' =
                IF ~validate_subset.ok THEN cg_fs
                ELSE IF cg_env = "no_directory" \/ cg_target # "cpp_stl"
                THEN Append(cg_fs, "create_directories")
                ELSE IF cg_env = "no_file"
                THEN cg_fs \o <<"create_directories", "ofstream header">>
                ELSE cg_fs \o <<"create_directories", "ofstream header", "ofstream source">>
           /\ cg_result' =
                IF ~validate_subset.ok THEN validate_subset
                ELSE IF cg_env = "no_directory" THEN Err("failed to create output directory")
                ELSE IF cg_env = "no_file" /\ cg_target = "cpp_stl"
                THEN Err("failed to open output file")
                ELSE Ok
           /\ cg_pc' = IF ~validate_subset.ok \/ cg_env = "no_directory" THEN "done"
                       ELSE IF cg_target # "cpp_stl" THEN "render_script"
                       ELSE IF cg_env = "ok" THEN "render" ELSE "done"
     IN Open(ValidateSupportedSubset(cg_spec))
  /\ cg_i' = 1
  /\ UNCHANGED <<cg_spec, cg_target, cg_env, cg_read, cg_absent, cg_first, cg_rest>>

\* RenderSource, one turn of the loop over spec.attrs in _read(): a
\* repeat=expr/until attr has *attr.repeat_expr rendered without a test for
\* a value; on an absent one the read is undefined, and the call either
\* dies or renders whatever the storage holds
CgRenderAttr ==
  /\ cg_pc = "render"
  /\ cg_i <= Len(cg_spec.attrs)
  /\ LET attr == cg_spec.attrs[cg_i]
         attr_names == {cg_spec.attrs[k].id : k \in DOMAIN cg_spec.attrs}
                       \cup {cg_spec.params[k].id : k \in DOMAIN cg_spec.params}
         Emit(repeat_expr) ==
           /\ cg_read' = Append(cg_read,
                                ReadStatement(attr, attr_names,
                                              BuildUserTypeMap(cg_spec.types), repeat_expr))
           /\ cg_i' = cg_i + 1
           /\ cg_pc' = "render"
     IN IF attr.repeat \in {"kExpr", "kUntil"} /\ ~HasValue(attr.repeat_expr)
        THEN /\ cg_absent' = cg_absent \cup {<<attr.id, "repeat_expr">>}
             /\ \/ \E garbage \in {ExprInt(0), ExprName(<<>>)} : Emit(garbage)
                \/ /\ cg_pc' = "crashed"
                   /\ UNCHANGED <<cg_read, cg_i>>
        ELSE /\ Emit(IF HasValue(attr.repeat_expr) THEN ValueOf(attr.repeat_expr)
                     ELSE DefaultExpr)
             /\ UNCHANGED cg_absent
  /\ UNCHANGED <<cg_spec, cg_target, cg_env, cg_gate, cg_result, cg_first, cg_fs, cg_rest>>

\* header << RenderHeader(spec); source << RenderSource(spec); return ok
CgWrite ==
  /\ cg_pc = "render"
  /\ cg_i > Len(cg_spec.attrs)
  /\ cg_pc' = "done"
  /\ UNCHANGED <<cg_spec, cg_target, cg_env, cg_gate, cg_i, cg_read, cg_absent, cg_result,
                 cg_first, cg_fs, cg_rest>>

\* EmitScriptTarget: WriteFile(output_file, RenderScriptingModule(spec,
\* target), &error); the module is rendered before WriteFile opens the
\* file.  Of the module only the attrs it reads are kept: one statement
\* for each attr of the Spec, of the form the target names.
CgRenderScript ==
  /\ cg_pc = "render_script"
  /\ cg_read' = [k \in DOMAIN cg_spec.attrs |->
                   [id |-> cg_spec.attrs[k].id, cond |-> NullOpt, form |-> cg_target,
                    on |-> NullOpt, size |-> NullOpt, count |-> NullOpt, until |-> NullOpt]]
  /\ cg_result' = IF cg_env = "no_file" THEN Err("failed to open output file") ELSE Ok
  /\ cg_fs' = Append(cg_fs, "WriteFile")
  /\ cg_pc' = "done"
  /\ UNCHANGED <<cg_spec, cg_target, cg_env, cg_gate, cg_i, cg_absent, cg_first, cg_rest>>

\* codegen_test.cpp: the files of the first call are read (h1, c1) and the
\* function is called again with the same spec and options
CgAgain ==
  /\ cg_pc = "done"
  /\ cg_first = NullOpt
  /\ cg_first' = Some([result |-> cg_result, read |-> cg_read])
  /\ cg_read' = <<>>
  /\ cg_fs' = <<>>
  /\ cg_i' = 0
  /\ cg_pc' = "start"
  /\ UNCHANGED <<cg_spec, cg_target, cg_env, cg_gate, cg_absent, cg_result, cg_rest>>

CgNext == CgValidate \/ CgRenderAttr \/ CgWrite \/ CgRenderScript \/ CgAgain

\* C5: a Spec the gate accepted is rendered without a dereference of an
\* absent optional field and without a fatal error of the emitter
C5_GateClosure ==
  (cg_pc \in {"render", "done", "crashed"} /\ cg_gate.ok)
    => (cg_absent = {} /\ cg_pc # "crashed")

\* C28: when ValidateSupportedSubset rejects the Spec, the emitter of every
\* target returns the error of the gate and has made no call on the file
\* system: the output directory is not created and no output file is
\* opened or written.
C28_GateBeforeFiles ==
  (cg_pc # "start" /\ ~ValidateSupportedSubset(cg_spec).ok) =>
    /\ cg_pc = "done"
    /\ cg_result = ValidateSupportedSubset(cg_spec)
    /\ cg_fs = <<>>

\* C28 happens: a script emitter has returned the error of the gate for
\* the second time, in an environment in which the directory and the file
\* could have been made
C28_Witness ==
  /\ cg_pc = "done" /\ HasValue(cg_first)
  /\ cg_target = "python" /\ cg_env = "ok"
  /\ ~cg_result.ok /\ cg_result = ValidateSupportedSubset(cg_spec)
  /\ cg_fs = <<>>

\* C7: a second call with the same Spec and options hands back the same
\* result and writes the same text as the first
C7_EmitTwice ==
  (cg_pc = "done" /\ HasValue(cg_first))
    => (cg_result = ValueOf(cg_first).result /\ cg_read = ValueOf(cg_first).read)

----------------------------------------------------------------------------
(* RenderExpr and the way back: an expression is rendered as RenderSource  *)
(* renders a value instance (parent_prec = -1, no repeat item) and the     *)
(* text is parsed again                                                    *)

\* the most binary operators in a sample expression
MaxOps == 2

\* the trees of exactly k binary operators over the attr a; the operators
\* are two spellings of every binding strength but the ones with a single
\* operator, the aliases among them
RECURSIVE ExTrees(_)
ExTrees(k) ==
  LET ops == {<<"|", "|">>, <<"a", "n", "d">>, <<"|">>, <<"x", "o", "r">>, <<"&">>,
              <<"!", "=">>, <<"<", "=">>, <<">", ">">>, <<"+">>, <<"-">>, <<"*">>, <<"/">>}
  IN IF k = 0 THEN {ExprName(<<"a">>)}
     ELSE UNION {{ExprBinary(op, l, r) :
                    op \in ops, l \in ExTrees(i), r \in ExTrees(k - 1 - i)} :
                 i \in 0..(k - 1)}

ExSamples ==
  LET leaves == {ExprName(<<"a">>), ExprName(<<"n">>), ExprInt(3), ExprInt(-3),
                 ExprBool(TRUE)}
  IN UNION {ExTrees(k) : k \in 0..MaxOps}
     \cup leaves
     \cup {ExprUnary(u, x) : u \in {<<"-">>, <<"!">>, <<"n", "o", "t">>, <<"~">>},
                             x \in leaves \cup ExTrees(1)}
     \cup {ExprBinary(op, x, y) :
             op \in {<<"-">>, <<"*">>},
             x \in {ExprName(<<"a">>), ExprInt(-3), ExprUnary(<<"-">>, ExprName(<<"n">>))},
             y \in leaves \cup {ExprUnary(<<"-">>, ExprInt(3)),
                                ExprUnary(<<"~">>, ExprUnary(<<"-">>, ExprName(<<"n">>)))}}

ExInit ==
  /\ ex_expr \in ExSamples
  /\ ex_text = <<>> /\ ex_again = NullOpt /\ ex_pc = "built"
  /\ RtIdle /\ LdIdle /\ CgIdle /\ GnIdle /\ VaIdle /\ ClIdle /\ MnIdle /\ FeIdle /\ KsIdle /\ EmIdle /\ LuIdle /\ DpIdle

\* std::string rendered = RenderExpr(inst.value_expr, attr_names,
\* known_instances, -1);
ExRender ==
  /\ ex_pc = "built"
  /\ ex_text' = RenderExpr(ex_expr, {<<"a">>}, {<<"i">>}, -1, <<>>)
  /\ ex_pc' = "rendered"
  /\ UNCHANGED <<ex_expr, ex_again, ex_rest>>

\* the rendered text is read again
ExReparse ==
  /\ ex_pc = "rendered"
  /\ ex_again' = Reparse(ex_text)
  /\ ex_pc' = "reparsed"
  /\ UNCHANGED <<ex_expr, ex_text, ex_rest>>

ExNext == ExRender \/ ExReparse

\* C6: the text RenderExpr gives for an expression built from the
\* allow-listed operators reads back, with the same precedence table and
\* left-associative binary operators, as the same tree
C6_RenderReparse ==
  ex_pc = "reparsed" => ex_again = Some(Normalized(ex_expr))

----------------------------------------------------------------------------
(* The class RenderSource writes for a Spec, run over a stream: the        *)
(* constructor with _read(), and the instance accessor                     *)

\* the largest byte of a sample stream, the longest sample stream, and the
\* most accessor calls on one object
MaxByte == 2

MaxData == 3

MaxCalls == 3

\* the name RenderSource passes to RenderExpr for `_`
RepeatItem == <<"r", "e", "p", "e", "a", "t", "_", "i", "t", "e", "m">>

\* kaitai::kstream::read_u1 at pos: a short read throws and leaves the
\* stream at the position before the call
ReadU1(data, pos) ==
  IF pos < Len(data) THEN [ok |-> TRUE, value |-> data[pos + 1], pos |-> pos + 1]
  ELSE [ok |-> FALSE, value |-> 0, pos |-> pos]

\* the expression as RenderExpr writes it with a repeat_item_name: the name
\* `_` becomes that name, every other node stays
RECURSIVE WithRepeatItem(_, _)
WithRepeatItem(expr, repeat_item_name) ==
  LET Sub(opt) == IF HasValue(opt) THEN Some(WithRepeatItem(ValueOf(opt), repeat_item_name))
                  ELSE NullOpt
  IN IF expr.kind = "kName"
     THEN IF repeat_item_name # <<>> /\ expr.text = <<"_">> THEN ExprName(repeat_item_name)
          ELSE expr
     ELSE [expr EXCEPT !.lhs = Sub(expr.lhs), !.rhs = Sub(expr.rhs)]

\* the names a rendered expression refers to
RECURSIVE ExprNames(_)
ExprNames(expr) ==
  LET Of(opt) == IF HasValue(opt) THEN ExprNames(ValueOf(opt)) ELSE {}
  IN IF expr.kind = "kName" THEN {expr.text} ELSE Of(expr.lhs) \cup Of(expr.rhs)

\* the value of a rendered expression where every name it refers to has
\* the value values[name]
RECURSIVE EvalExpr(_, _)
EvalExpr(expr, values) ==
  LET op == NormalizeOp(expr.text)
      Bin(l, r) == CASE op = <<"=", "=">> -> l = r
                     [] op = <<"!", "=">> -> l # r
                     [] op = <<"+">> -> l + r
                     [] op = <<"<">> -> l < r
  IN CASE expr.kind = "kInt" -> expr.int_value
       [] expr.kind = "kBool" -> expr.bool_value
       [] expr.kind = "kName" -> values[expr.text]
       [] expr.kind = "kBinary" -> Bin(EvalExpr(ValueOf(expr.lhs), values),
                                       EvalExpr(ValueOf(expr.rhs), values))

\* the do-while RenderSource writes for a repeat=until attr: the statements
\* between the braces, and the condition after the closing brace
UntilLoop(attr) ==
  [body |-> <<[op |-> "declare", name |-> RepeatItem],
              [op |-> "push_back_move", name |-> RepeatItem]>>,
   until |-> WithRepeatItem(ValueOf(attr.repeat_expr), RepeatItem)]

\* the statements RenderSource writes into the accessor of an instance
AccessorBody(inst) ==
  LET S(op, expr) == <<[op |-> op, expr |-> expr]>>
  IN S("return_if_f", DefaultExpr) \o S("set_f", DefaultExpr)
     \o (IF inst.kind = "kParse"
         THEN S("save_pos", DefaultExpr)
              \o (IF HasValue(inst.pos_expr) THEN S("seek", ValueOf(inst.pos_expr)) ELSE <<>>)
              \o S("read", DefaultExpr) \o S("seek_pos", DefaultExpr)
         ELSE S("assign", inst.value_expr))
     \o S("return", DefaultExpr)

\* one call of the accessor from statement k on: st holds the stream
\* position, f_<id>, m_<id>, the local _pos, what the call did to the stream
\* and how it ended
RECURSIVE RunAccessor(_, _, _, _, _)
RunAccessor(body, k, st, data, values) ==
  LET s == body[k]
      Go(next) == RunAccessor(body, k + 1, next, data, values)
      Read(r) == IF r.ok THEN Go([st EXCEPT !.m = r.value, !.pos = r.pos, !.reads = @ + 1,
                                            !.stored = Some(r.value)])
                 ELSE [st EXCEPT !.reads = @ + 1, !.out = "threw"]
      Assign(v) == Go([st EXCEPT !.m = v, !.evals = @ + 1, !.stored = Some(v)])
  IN CASE s.op = "return_if_f" ->
            IF st.f THEN [st EXCEPT !.out = "returned", !.value = st.m] ELSE Go(st)
       [] s.op = "set_f" -> Go([st EXCEPT !.f = TRUE])
       [] s.op = "save_pos" -> Go([st EXCEPT !.saved = st.pos])
       [] s.op = "seek" -> Go([st EXCEPT !.pos = EvalExpr(s.expr, values), !.seeks = @ + 1])
       [] s.op = "read" -> Read(ReadU1(data, st.pos))
       [] s.op = "seek_pos" -> Go([st EXCEPT !.pos = st.saved, !.seeks = @ + 1])
       [] s.op = "assign" -> Assign(EvalExpr(s.expr, values))
       [] s.op = "return" -> [st EXCEPT !.out = "returned", !.value = st.m]

\* the Specs the generated class is run for: an attr a of one byte, an attr
\* b repeated until an expression holds, and one instance x
GnSamples ==
  LET A(id) == CgAttr([DefaultAttr EXCEPT !.id = id])
      Eq(name, v) == ExprBinary(<<"=", "=">>, ExprName(name), ExprInt(v))
      X == CgInstance(<<"x">>)
  IN {[CgBaseSpec EXCEPT
         !.attrs = <<A(<<"a">>),
                     [A(<<"b">>) EXCEPT !.type = t, !.repeat = "kUntil",
                                        !.repeat_expr = Some(u)]>>,
         !.instances = <<i>>] :
        t \in {PrimitiveRef("kU1"), UserRef(<<"z">>)},
        u \in {Eq(<<"_">>, MaxByte), Eq(<<"a">>, 1), ExprBool(TRUE)},
        i \in {[X EXCEPT !.value_expr = ExprBinary(<<"+">>, ExprName(<<"a">>), ExprInt(1))]}
              \cup {[X EXCEPT !.kind = "kParse", !.pos_expr = p] :
                      p \in {NullOpt, Some(ExprInt(0)), Some(ExprInt(MaxData))}}}

\* no accessor call yet
NoCall == [entry_pos |-> 0, out |-> "none", value |-> 0, seeks |-> 0, reads |-> 0, evals |-> 0]

\* a Spec the gate accepts and a stream; the members the constructor does
\* not assign hold any value; a pos_expr lies within the stream
GnInit ==
  /\ gn_spec \in {s \in GnSamples : ValidateSupportedSubset(s).ok}
  /\ gn_data \in UNION {[1..n -> 0..MaxByte] : n \in 0..MaxData}
  /\ HasValue(gn_spec.instances[1].pos_expr)
       => ValueOf(gn_spec.instances[1].pos_expr).int_value <= Len(gn_data)
  /\ gn_pos = 0 /\ gn_a = 0 /\ gn_items = <<>>
  /\ gn_f \in BOOLEAN /\ gn_m \in 0..MaxByte
  /\ gn_stored = NullOpt /\ gn_calls = 0 /\ gn_last = NoCall
  /\ gn_pc = "emitted"
  /\ RtIdle /\ LdIdle /\ CgIdle /\ ExIdle /\ VaIdle /\ ClIdle /\ MnIdle /\ FeIdle /\ KsIdle /\ EmIdle /\ LuIdle /\ DpIdle

\* the compiler reads the emitted _read(): the condition of the do-while
\* stands after the closing brace of the block that declares repeat_item,
\* where only the members of the class are in scope
GnBuild ==
  /\ gn_pc = "emitted"
  /\ gn_pc' = IF ExprNames(UntilLoop(gn_spec.attrs[2]).until)
                   \subseteq {gn_spec.attrs[i].id : i \in DOMAIN gn_spec.attrs}
                             \cup {gn_spec.instances[i].id : i \in DOMAIN gn_spec.instances}
              THEN "built" ELSE "ill_formed"
  /\ UNCHANGED <<gn_spec, gn_data, gn_pos, gn_a, gn_items, gn_f, gn_m, gn_stored, gn_calls,
                 gn_last, gn_rest>>

\* the constructor: f_x = false, m_b = nullptr, and _read() up to the loop
GnConstruct ==
  /\ gn_pc = "built"
  /\ gn_f' = FALSE
  /\ LET r == ReadU1(gn_data, gn_pos)
     IN /\ gn_a' = IF r.ok THEN r.value ELSE gn_a
        /\ gn_pos' = r.pos
        /\ gn_pc' = IF r.ok THEN "until_item" ELSE "threw"
  /\ UNCHANGED <<gn_spec, gn_data, gn_items, gn_m, gn_stored, gn_calls, gn_last, gn_rest>>

\* the block of the do-while: auto repeat_item = <read>;
\* m_b->push_back(std::move(repeat_item));
GnUntilItem ==
  /\ gn_pc = "until_item"
  /\ LET r == ReadU1(gn_data, gn_pos)
     IN /\ gn_items' = IF r.ok THEN Append(gn_items, r.value) ELSE gn_items
        /\ gn_pos' = r.pos
        /\ gn_pc' = IF r.ok THEN "until_cond" ELSE "threw"
  /\ UNCHANGED <<gn_spec, gn_data, gn_a, gn_f, gn_m, gn_stored, gn_calls, gn_last, gn_rest>>

\* } while (!(<until>));
GnUntilCond ==
  /\ gn_pc = "until_cond"
  /\ gn_pc' = IF EvalExpr(UntilLoop(gn_spec.attrs[2]).until, <<"a">> :> gn_a)
              THEN "ready" ELSE "until_item"
  /\ UNCHANGED <<gn_spec, gn_data, gn_pos, gn_a, gn_items, gn_f, gn_m, gn_stored, gn_calls,
                 gn_last, gn_rest>>

\* one call of x() on the constructed object
GnCall ==
  /\ gn_pc \in {"ready", "called"}
  /\ gn_calls < MaxCalls
  /\ LET Done(end) ==
           /\ gn_pos' = end.pos /\ gn_f' = end.f /\ gn_m' = end.m /\ gn_stored' = end.stored
           /\ gn_last' = [entry_pos |-> gn_pos, out |-> end.out, value |-> end.value,
                          seeks |-> end.seeks, reads |-> end.reads, evals |-> end.evals]
     IN Done(RunAccessor(AccessorBody(gn_spec.instances[1]), 1,
                         [pos |-> gn_pos, f |-> gn_f, m |-> gn_m, saved |-> 0,
                          stored |-> gn_stored, out |-> "running", value |-> 0,
                          seeks |-> 0, reads |-> 0, evals |-> 0],
                         gn_data, <<"a">> :> gn_a))
  /\ gn_calls' = gn_calls + 1
  /\ gn_pc' = "called"
  /\ UNCHANGED <<gn_spec, gn_data, gn_a, gn_items, gn_rest>>

GnNext == GnBuild \/ GnConstruct \/ GnUntilItem \/ GnUntilCond \/ GnCall

\* C10: the loop written for a repeat=until attr is one whose termination
\* expression can be evaluated with `_` standing for the item just appended:
\* when it has finished, b holds at least one item, the expression holds of
\* the last item and of no item before it
C10_UntilAfterPush ==
  LET Holds(i) == EvalExpr(UntilLoop(gn_spec.attrs[2]).until,
                           (<<"a">> :> gn_a) @@ (RepeatItem :> gn_items[i]))
  IN /\ gn_pc # "ill_formed"
     /\ gn_pc = "until_item" => \A i \in DOMAIN gn_items : ~Holds(i)
     /\ gn_pc \in {"ready", "called"}
          => /\ gn_items # <<>> /\ Holds(Len(gn_items))
             /\ \A i \in 1..(Len(gn_items) - 1) : ~Holds(i)

\* C8: a first call of the accessor that returns has computed the value and
\* stored it; every later call returns the stored value and neither seeks,
\* nor reads the stream, nor evaluates the expression
C8_AccessorCaches ==
  gn_pc = "called" =>
    /\ (gn_calls = 1 /\ gn_last.out = "returned")
         => gn_f /\ gn_m = gn_last.value /\ gn_stored = Some(gn_last.value)
    /\ gn_calls > 1
         => /\ gn_last.out = "returned" /\ gn_stored = Some(gn_last.value)
            /\ gn_last.seeks = 0 /\ gn_last.reads = 0 /\ gn_last.evals = 0

\* C9: after a call of the accessor of a parse instance, the first or a
\* later one, the stream is at the position it had before the call
C9_PositionRestored ==
  (gn_pc = "called" /\ gn_spec.instances[1].kind = "kParse")
    => gn_pos = gn_last.entry_pos

\* C29: the guard f_<id> is set only while m_<id> holds a value that a
\* call computed and stored; a call that ends with an exception leaves the
\* guard clear, so that the next call computes again, and leaves the
\* stream of a parse instance at the position it had before the call
C29_GuardMeansComputed ==
  gn_pc \in {"ready", "called"} =>
    /\ gn_f => (HasValue(gn_stored) /\ gn_m = ValueOf(gn_stored))
    /\ (gn_pc = "called" /\ gn_last.out # "returned") =>
         /\ ~gn_f
         /\ gn_spec.instances[1].kind = "kParse" => gn_pos = gn_last.entry_pos

----------------------------------------------------------------------------
(* Validate on in-memory Specs, as ir_roundtrip_test.cpp calls it          *)

\* the most TypeDefs of a sample alias graph
MaxTypes == 3

\* the name of the i-th TypeDef of a sample alias graph
VaTypeName(i) == <<"t">> \o NatToChars(i)

\* a Spec named s that Validate accepts, which the samples vary
VaBaseSpec == [DefaultSpec EXCEPT !.name = <<"s">>]

\* alias graphs: every TypeDef is a primitive, or an alias of a TypeDef, of
\* the spec itself or of a name nothing declares
VaGraphSamples ==
  LET refs == {PrimitiveRef("kU1"), UserRef(<<"s">>), UserRef(<<"z">>)}
              \cup {UserRef(VaTypeName(j)) : j \in 1..MaxTypes}
  IN {[VaBaseSpec EXCEPT !.types = [i \in DOMAIN g |-> [name |-> VaTypeName(i), type |-> g[i]]]] :
        g \in UpTo(refs, MaxTypes)}

\* names: an empty spec name, TypeDefs named like the spec or like one
\* another, attrs and instances that share an id
VaNameSamples ==
  LET T(name) == [name |-> name, type |-> PrimitiveRef("kU1")]
      A(id) == [DefaultAttr EXCEPT !.id = id]
      I(id) == [id |-> id, value_expr |-> ExprInt(1)]
      ids == {<<"a">>, <<"b">>, <<>>}
  IN {[VaBaseSpec EXCEPT !.name = n, !.types = t] :
        n \in {<<>>, <<"s">>, <<"a">>}, t \in UpTo({T(<<"a">>), T(<<"s">>), T(<<>>)}, MaxItems)}
     \cup {[VaBaseSpec EXCEPT !.attrs = a, !.instances = i] :
             a \in UpTo({A(id) : id \in ids}, MaxItems),
             i \in UpTo({I(id) : id \in ids}, MaxItems)}

\* attrs with and without switch_on, with no case, with cases, and with
\* none, one or two else cases
VaSwitchSamples ==
  LET C == [match_expr |-> Some(ExprInt(1)), type |-> PrimitiveRef("kU2")]
      E == [match_expr |-> NullOpt, type |-> PrimitiveRef("kU4")]
      U == [match_expr |-> Some(ExprInt(2)), type |-> UserRef(<<"s">>)]
      pool == {[DefaultAttr EXCEPT !.id = <<"a">>, !.switch_on = on, !.switch_cases = c] :
                 on \in {NullOpt, Some(ExprName(<<"b">>))},
                 c \in {<<>>, <<C>>, <<E>>, <<C, E>>, <<E, E>>, <<E, C, E>>, <<U>>}}
  IN {[VaBaseSpec EXCEPT !.attrs = a] : a \in UpTo(pool, MaxItems)}

\* attrs with and without encoding, of primitive type, of a TypeDef that
\* stands for a primitive (directly or through another TypeDef), and of the
\* spec's own type
VaEncodingSamples ==
  LET T(i, ref) == [name |-> VaTypeName(i), type |-> ref]
      graphs == {<<>>} \cup {<<T(1, PrimitiveRef(p))>> : p \in {"kU1", "kStr"}}
                  \cup {<<T(1, UserRef(VaTypeName(2))), T(2, PrimitiveRef(p))>> :
                          p \in {"kU1", "kStr"}}
      pool == {[DefaultAttr EXCEPT !.id = <<"a">>, !.type = ref, !.encoding = e] :
                 ref \in {PrimitiveRef("kU1"), PrimitiveRef("kStr"),
                          UserRef(VaTypeName(1)), UserRef(<<"s">>)},
                 e \in {NullOpt, Some(<<"x">>)}}
  IN {[VaBaseSpec EXCEPT !.types = g, !.attrs = a] :
        g \in graphs, a \in UpTo(pool, MaxItems) \ {<<>>}}

VaSamples ==
  VaGraphSamples \cup VaNameSamples \cup VaSwitchSamples \cup VaEncodingSamples

\* the orders in which an unordered map with these keys may be iterated
KeyOrders(keys) ==
  {o \in [1..Cardinality(keys) -> keys] : \A i, j \in DOMAIN o : o[i] = o[j] => i = j}

VaInit ==
  /\ va_spec \in VaSamples
  /\ va_order \in KeyOrders({va_spec.types[i].name :
                               i \in {k \in DOMAIN va_spec.types :
                                        va_spec.types[k].type.kind = "kUser"}})
  /\ va_result = Ok
  /\ va_pc = "start"
  /\ RtIdle /\ LdIdle /\ CgIdle /\ ExIdle /\ GnIdle /\ ClIdle /\ MnIdle /\ FeIdle /\ KsIdle /\ EmIdle /\ LuIdle /\ DpIdle

\* auto r = kscpp::ir::Validate(spec);
VaValidate ==
  /\ va_pc = "start"
  /\ va_result' = ValidateIn(va_spec, va_order)
  /\ va_pc' = "validated"
  /\ UNCHANGED <<va_spec, va_order, va_rest>>

VaNext == VaValidate

\* the items of a list have pairwise distinct values
Distinct(list) == \A i, j \in DOMAIN list : list[i] = list[j] => i = j

\* C11: Validate rejects every Spec whose name is empty, whose name and
\* type names are not pairwise distinct, in which two attrs share an id, or
\* in which two instances share an id
C11_StructuralInvariants ==
  LET Of(items, field) == [i \in DOMAIN items |-> items[i][field]]
  IN (/\ va_pc = "validated"
      /\ \/ va_spec.name = <<>>
         \/ ~Distinct(<<va_spec.name>> \o Of(va_spec.types, "name"))
         \/ ~Distinct(Of(va_spec.attrs, "id"))
         \/ ~Distinct(Of(va_spec.instances, "id")))
       => ~va_result.ok

\* C19: Validate accepts a Spec only if every attr has switch_on set exactly
\* when it has switch cases, and has at most one case without match_expr
C19_SwitchShape ==
  (va_pc = "validated" /\ va_result.ok)
    => \A i \in DOMAIN va_spec.attrs :
         LET attr == va_spec.attrs[i]
         IN /\ HasValue(attr.switch_on) <=> attr.switch_cases # <<>>
            /\ \A j, k \in DOMAIN attr.switch_cases :
                 (/\ ~HasValue(attr.switch_cases[j].match_expr)
                  /\ ~HasValue(attr.switch_cases[k].match_expr)) => j = k

\* C19 happens: Validate has accepted a switch with a case and an else case
C19_Witness ==
  /\ va_pc = "validated" /\ va_result.ok
  /\ \E i \in DOMAIN va_spec.attrs :
       /\ HasValue(va_spec.attrs[i].switch_on)
       /\ Len(va_spec.attrs[i].switch_cases) = 2
       /\ ~HasValue(va_spec.attrs[i].switch_cases[2].match_expr)

\* the alias edges of a Spec: a TypeDef of user type, and the name it stands
\* for
AliasEdges(spec) ==
  {<<spec.types[i].name, spec.types[i].type.user_type>> :
     i \in {j \in DOMAIN spec.types : spec.types[j].type.kind = "kUser"}}

\* the names the alias edges lead to from the names in from
RECURSIVE AliasReach(_, _)
AliasReach(edges, from) ==
  LET more == from \cup {e[2] : e \in {d \in edges : d[1] \in from}}
  IN IF more = from THEN from ELSE AliasReach(edges, more)

\* the TypeDefs that following the alias edges leads back to
OnAliasCycle(spec) ==
  {e[1] : e \in {d \in AliasEdges(spec) : d[1] \in AliasReach(AliasEdges(spec), {d[2]})}}

\* every alias stands for a declared name: the Spec or one of its TypeDefs
AliasTargetsDeclared(spec) ==
  \A e \in AliasEdges(spec) :
    e[2] \in {spec.name} \cup {spec.types[i].name : i \in DOMAIN spec.types}

\* nothing but its aliases can make Validate reject the Spec: with every
\* alias turned into a primitive TypeDef it is accepted
ValidButForAliases(spec) ==
  Validate([spec EXCEPT !.types =
              [i \in DOMAIN spec.types |->
                 [spec.types[i] EXCEPT !.type = PrimitiveRef("kU1")]]]).ok

CycleDiagnostic == va_result.error = "type alias cycle detected at"

\* C20 as stated, for a Spec with nothing else wrong: Validate gives the
\* cycle diagnostic exactly when the alias edges hold a cycle, and accepts
\* every acyclic alias graph whose targets are all declared
C20_CycleExactly ==
  (va_pc = "validated" /\ ValidButForAliases(va_spec))
    => /\ CycleDiagnostic <=> OnAliasCycle(va_spec) # {}
       /\ (OnAliasCycle(va_spec) = {} /\ AliasTargetsDeclared(va_spec)) => va_result.ok

\* C20: Validate gives the cycle diagnostic only when the alias edges hold a
\* cycle, and names a TypeDef on it; a Spec whose alias edges hold a cycle
\* is never accepted, and it is rejected with the cycle diagnostic when
\* nothing else is wrong with it and all alias targets are declared; an
\* acyclic alias graph whose targets are all declared is accepted when
\* nothing else is wrong with the Spec.  (The walk ends on every input: the
\* result is there for every sample.)
C20_AliasCycles ==
  va_pc = "validated"
    => /\ CycleDiagnostic => va_result.detail \in OnAliasCycle(va_spec)
       /\ OnAliasCycle(va_spec) # {} => ~va_result.ok
       /\ (ValidButForAliases(va_spec) /\ AliasTargetsDeclared(va_spec))
            => (CycleDiagnostic <=> OnAliasCycle(va_spec) # {})
       /\ (/\ ValidButForAliases(va_spec) /\ AliasTargetsDeclared(va_spec)
           /\ OnAliasCycle(va_spec) = {})
            => va_result.ok

\* C20 happens: a cycle of three aliases is diagnosed
C20_Witness ==
  /\ va_pc = "validated" /\ CycleDiagnostic
  /\ Cardinality(OnAliasCycle(va_spec)) = 3

\* the primitive type an attr is read as: its own, or the one its user type
\* stands for through the spec's TypeDefs (none when the chain of aliases
\* leaves the TypeDefs)
EffectivePrimitive(spec, attr) ==
  ResolvePrimitiveType(attr.type, BuildUserTypeMap(spec.types))

\* C21: Validate rejects every Spec with an attr that has an encoding and
\* whose effective primitive type, after resolving user-type aliases through
\* the spec's types, is not str
C21_EncodingOnlyStr ==
  (/\ va_pc = "validated"
   /\ \E i \in DOMAIN va_spec.attrs :
        /\ HasValue(va_spec.attrs[i].encoding)
        /\ HasValue(EffectivePrimitive(va_spec, va_spec.attrs[i]))
        /\ ValueOf(EffectivePrimitive(va_spec, va_spec.attrs[i])) # "kStr")
    => ~va_result.ok

----------------------------------------------------------------------------
(* Claims about the supportability gate                                    *)

\* the ids a Spec declares: its params, attrs and instances
DeclaredNames(spec) ==
  LET Ids(items) == {items[i].id : i \in DOMAIN items}
  IN Ids(spec.params) \cup Ids(spec.attrs) \cup Ids(spec.instances)

\* the expressions of a Spec, each with the names it may use beside the
\* declared ones: `_` in the repeat_expr of a repeat=until attr
SpecExprs(spec) ==
  LET Opt(o, extra) == IF HasValue(o) THEN {[expr |-> ValueOf(o), extra |-> extra]} ELSE {}
      OfInstance(inst) ==
        IF inst.kind = "kValue" THEN Opt(Some(inst.value_expr), {})
        ELSE Opt(inst.pos_expr, {}) \cup Opt(inst.size_expr, {})
      OfAttr(attr) ==
        Opt(attr.if_expr, {}) \cup Opt(attr.size_expr, {}) \cup Opt(attr.switch_on, {})
        \cup Opt(attr.repeat_expr, IF attr.repeat = "kUntil" THEN {<<"_">>} ELSE {})
        \cup UNION {Opt(attr.switch_cases[k].match_expr, {}) : k \in DOMAIN attr.switch_cases}
        \cup UNION {Opt(Some(attr.user_type_args[k]), {}) : k \in DOMAIN attr.user_type_args}
  IN UNION {OfInstance(spec.instances[i]) : i \in DOMAIN spec.instances}
     \cup UNION {OfAttr(spec.attrs[i]) : i \in DOMAIN spec.attrs}
     \cup UNION {Opt(Some(spec.validations[i].condition_expr), {}) : i \in DOMAIN spec.validations}

\* C12: the gate rejects every Spec with an expression that refers to a
\* name which is no declared attr, param or instance; `_` may stand only in
\* the repeat_expr of a repeat=until attr
C12_GateNames ==
  (/\ cg_pc # "start"
   /\ \E e \in SpecExprs(cg_spec) :
        ~(ExprNames(e.expr) \subseteq DeclaredNames(cg_spec) \cup e.extra))
    => ~cg_gate.ok

\* the validation targets of a Spec that are no declared attr, param or
\* instance
UndeclaredTargets(spec) ==
  {spec.validations[i].target : i \in DOMAIN spec.validations} \ DeclaredNames(spec)

\* the Spec without its validations of an undeclared target
DeclaredTargetsOnly(spec) ==
  [spec EXCEPT !.validations =
     SelectSeq(spec.validations, LAMBDA v : v.target \in DeclaredNames(spec))]

\* the messages of the gate: each starts with `not yet supported:`
NotYetSupported ==
  {"not yet supported: expression name reference outside attrs/instances",
   "not yet supported: unary operator",
   "not yet supported: binary operator",
   "not yet supported: attr type must resolve to primitive type",
   "not yet supported: complex user-type attrs in this migration slice",
   "not yet supported: encoding outside str attrs",
   "not yet supported: primitive attr type in this migration slice",
   "not yet supported: switch-on case type must resolve to primitive type",
   "not yet supported: switch-on cases must share one primitive type",
   "not yet supported: malformed switch cases (duplicate else)",
   "not yet supported: attr.enum_name references unknown enum",
   "not yet supported: enum attrs must be integer-backed",
   "not yet supported: parse instance type must resolve to primitive type",
   "not yet supported: encoding on user-type parse instances",
   "not yet supported: validation target outside attrs/instances",
   "not yet supported: empty enum name"}

\* the call has returned or the emitter is past the gate
CgGated == cg_pc \in {"render", "render_script", "done", "crashed"}

\* C13 as stated: whatever the entry point, a Spec with a validation whose
\* target is no declared attr, param or instance is refused with a message
\* that starts with `not yet supported:` and names such a target, and
\* nothing of it is rendered
C13_TargetAlwaysNamed ==
  (CgGated /\ UndeclaredTargets(cg_spec) # {})
    => /\ cg_pc = "done" /\ cg_read = <<>>
       /\ ~cg_result.ok
       /\ cg_result.error = "not yet supported: validation target outside attrs/instances"
       /\ cg_result.detail \in UndeclaredTargets(cg_spec)

\* C13: whatever the entry point, a Spec with a validation whose target is
\* no declared attr, param or instance is refused with a message that
\* starts with `not yet supported:`, and nothing of it is rendered; the
\* message names such a target when the gate finds nothing else in the
\* Spec, and otherwise it is the message of the check that failed first
C13_TargetRejected ==
  (CgGated /\ UndeclaredTargets(cg_spec) # {})
    => /\ cg_pc = "done" /\ cg_read = <<>>
       /\ ~cg_result.ok
       /\ cg_result.error \in NotYetSupported
       /\ ValidateSupportedSubset(DeclaredTargetsOnly(cg_spec)).ok
            => /\ cg_result.error
                    = "not yet supported: validation target outside attrs/instances"
               /\ cg_result.detail \in UndeclaredTargets(cg_spec)

C13_Witness ==
  /\ cg_pc = "done" /\ cg_target = "python"
  /\ UndeclaredTargets(cg_spec) # {}
  /\ cg_result.detail \in UndeclaredTargets(cg_spec)
----------------------------------------------------------------------------
(* cli_options.cpp: ParseCommandLine.  argv is the argument list after the *)
(* program name; an argument is a string of characters.                    *)

\* the options IsKnownOption lists, by name
Flag ==
  [t |-> <<"-", "t">>,
   target |-> <<"-", "-", "t", "a", "r", "g", "e", "t">>,
   w |-> <<"-", "w">>,
   read_write |-> <<"-", "-", "r", "e", "a", "d", "-", "w", "r", "i", "t", "e">>,
   d |-> <<"-", "d">>,
   outdir |-> <<"-", "-", "o", "u", "t", "d", "i", "r">>,
   I |-> <<"-", "I">>,
   import_path |-> <<"-", "-", "i", "m", "p", "o", "r", "t", "-", "p", "a", "t", "h">>,
   cpp_namespace |-> <<"-", "-", "c", "p", "p", "-", "n", "a", "m", "e", "s", "p", "a", "c", "e">>,
   cpp_standard |-> <<"-", "-", "c", "p", "p", "-", "s", "t", "a", "n", "d", "a", "r", "d">>,
   go_package |-> <<"-", "-", "g", "o", "-", "p", "a", "c", "k", "a", "g", "e">>,
   java_package |-> <<"-", "-", "j", "a", "v", "a", "-", "p", "a", "c", "k", "a", "g", "e">>,
   java_from_file_class |-> <<"-", "-", "j", "a", "v", "a", "-", "f", "r", "o", "m", "-", "f", "i", "l", "e", "-", "c", "l", "a", "s", "s">>,
   dotnet_namespace |-> <<"-", "-", "d", "o", "t", "n", "e", "t", "-", "n", "a", "m", "e", "s", "p", "a", "c", "e">>,
   php_namespace |-> <<"-", "-", "p", "h", "p", "-", "n", "a", "m", "e", "s", "p", "a", "c", "e">>,
   python_package |-> <<"-", "-", "p", "y", "t", "h", "o", "n", "-", "p", "a", "c", "k", "a", "g", "e">>,
   nim_module |-> <<"-", "-", "n", "i", "m", "-", "m", "o", "d", "u", "l", "e">>,
   nim_opaque |-> <<"-", "-", "n", "i", "m", "-", "o", "p", "a", "q", "u", "e">>,
   opaque_types |-> <<"-", "-", "o", "p", "a", "q", "u", "e", "-", "t", "y", "p", "e", "s">>,
   zero_copy_substream |-> <<"-", "-", "z", "e", "r", "o", "-", "c", "o", "p", "y", "-", "s", "u", "b", "s", "t", "r", "e", "a", "m">>,
   ksc_exceptions |-> <<"-", "-", "k", "s", "c", "-", "e", "x", "c", "e", "p", "t", "i", "o", "n", "s">>,
   ksc_json_output |-> <<"-", "-", "k", "s", "c", "-", "j", "s", "o", "n", "-", "o", "u", "t", "p", "u", "t">>,
   verbose |-> <<"-", "-", "v", "e", "r", "b", "o", "s", "e">>,
   no_auto_read |-> <<"-", "-", "n", "o", "-", "a", "u", "t", "o", "-", "r", "e", "a", "d">>,
   read_pos |-> <<"-", "-", "r", "e", "a", "d", "-", "p", "o", "s">>,
   debug |-> <<"-", "-", "d", "e", "b", "u", "g">>,
   from_ir |-> <<"-", "-", "f", "r", "o", "m", "-", "i", "r">>,
   help |-> <<"-", "-", "h", "e", "l", "p">>,
   h |-> <<"-", "h">>,
   version |-> <<"-", "-", "v", "e", "r", "s", "i", "o", "n">>]

ValidTargets ==
  {<<"a", "l", "l">>,
   <<"c", "p", "p", "_", "s", "t", "l">>,
   <<"c", "s", "h", "a", "r", "p">>,
   <<"g", "o">>,
   <<"g", "r", "a", "p", "h", "v", "i", "z">>,
   <<"h", "t", "m", "l">>,
   <<"j", "a", "v", "a">>,
   <<"j", "a", "v", "a", "s", "c", "r", "i", "p", "t">>,
   <<"l", "u", "a">>,
   <<"n", "i", "m">>,
   <<"p", "e", "r", "l">>,
   <<"p", "h", "p">>,
   <<"p", "y", "t", "h", "o", "n">>,
   <<"r", "u", "b", "y">>,
   <<"r", "u", "s", "t">>,
   <<"w", "i", "r", "e", "s", "h", "a", "r", "k", "_", "l", "u", "a">>}

IsValidTarget(target) == target \in ValidTargets

IsValidCppStandard(standard) == standard \in {<<"9", "8">>, <<"1", "1">>, <<"1", "7">>}

IsKnownOption(arg) == \E f \in DOMAIN Flag : Flag[f] = arg

IsBoolValue(value) == value \in {<<"t", "r", "u", "e">>, <<"f", "a", "l", "s", "e">>}

\* RuntimeOptions and CliOptions as declared, with the from_ir member
\* ParseCommandLine assigns
DefaultCliOptions ==
  [verbose |-> <<>>, src_files |-> <<>>, out_dir |-> <<".">>, targets |-> <<>>,
   throw_exceptions |-> FALSE, json_output |-> FALSE, import_paths |-> <<>>,
   from_ir |-> <<>>,
   runtime |-> [read_write |-> FALSE, auto_read |-> TRUE, read_pos |-> FALSE,
                zero_copy_substream |-> TRUE, opaque_types |-> FALSE,
                cpp_namespace |-> <<>>, cpp_standard |-> <<"9", "8">>, go_package |-> <<>>,
                java_package |-> <<>>, java_from_file_class |-> <<>>,
                dotnet_namespace |-> <<>>, php_namespace |-> <<>>,
                python_package |-> <<>>, nim_module |-> <<>>, nim_opaque |-> <<>>]]

\* the -I value, split at ':' with the empty pieces dropped
RECURSIVE SplitImportPaths(_, _, _)
SplitImportPaths(paths, current, import_paths) ==
  IF paths = <<>>
  THEN IF current # <<>> THEN Append(import_paths, current) ELSE import_paths
  ELSE IF Head(paths) = ":"
  THEN SplitImportPaths(Tail(paths), <<>>,
                        IF current # <<>> THEN Append(import_paths, current)
                        ELSE import_paths)
  ELSE SplitImportPaths(Tail(paths), Append(current, Head(paths)), import_paths)

\* the options that store their value in a string member of runtime
RuntimeStringFlags ==
  {"cpp_namespace", "go_package", "java_package", "java_from_file_class",
   "dotnet_namespace", "php_namespace", "python_package", "nim_module", "nim_opaque"}

\* ParseCommandLine without the statement that follows the loop for read-write
ParseFinishKeepsZeroCopy(result) ==
  IF result.options.from_ir = <<>> /\ result.options.targets = <<>>
  THEN [result EXCEPT !.status = "kError", !.message = "Missing required option --target"]
  ELSE IF result.options.from_ir # <<>> /\ result.options.src_files # <<>>
  THEN [result EXCEPT !.status = "kError",
                      !.message = "--from-ir mode does not accept .ksy input files"]
  ELSE result

\* the statements after the loop: read-write switches zero-copy substreams
\* off; a target or --from-ir is required; --from-ir takes no input files
ParseFinish(result) ==
  LET options ==
        IF result.options.runtime.read_write
        THEN [result.options EXCEPT !.runtime.zero_copy_substream = FALSE]
        ELSE result.options
  IN IF options.from_ir = <<>> /\ options.targets = <<>>
     THEN [status |-> "kError", options |-> options,
           message |-> "Missing required option --target"]
     ELSE IF options.from_ir # <<>> /\ options.src_files # <<>>
     THEN [status |-> "kError", options |-> options,
           message |-> "--from-ir mode does not accept .ksy input files"]
     ELSE [result EXCEPT !.options = options]

\* the loop of ParseCommandLine from argv[i] on
RECURSIVE ParseArgs(_, _, _)
ParseArgs(argv, i, result) ==
  LET arg == argv[i]
      value == IF i + 1 <= Len(argv) THEN argv[i + 1] ELSE <<>>
      Fail(message) == [result EXCEPT !.status = "kError", !.message = message]
      Options(options) == [result EXCEPT !.options = options]
      \* require_value, then the statements that use the value
      WithValue(valid, message, options) ==
        IF i + 1 > Len(argv) THEN Fail("option requires an argument")
        ELSE IF ~valid THEN Fail(message)
        ELSE ParseArgs(argv, i + 2, Options(options))
      Switch(options) == ParseArgs(argv, i + 1, Options(options))
      o == result.options
  IN IF i > Len(argv) THEN ParseFinish(result)
     ELSE IF arg \in {Flag.h, Flag.help}
     THEN [result EXCEPT !.status = "kHelp", !.message = "HelpText"]
     ELSE IF arg = Flag.version
     THEN [result EXCEPT !.status = "kVersion", !.message = "VersionText"]
     ELSE IF arg \in {Flag.t, Flag.target}
     THEN WithValue(IsValidTarget(value), "is not a valid target language",
                    [o EXCEPT !.targets = Append(@, value)])
     ELSE IF arg \in {Flag.w, Flag.read_write}
     THEN Switch([o EXCEPT !.runtime.read_write = TRUE, !.runtime.auto_read = FALSE])
     ELSE IF arg \in {Flag.d, Flag.outdir}
     THEN WithValue(TRUE, "", [o EXCEPT !.out_dir = value])
     ELSE IF arg \in {Flag.I, Flag.import_path}
     THEN WithValue(TRUE, "", [o EXCEPT !.import_paths = SplitImportPaths(value, <<>>, @)])
     ELSE IF arg = Flag.cpp_standard
     THEN WithValue(IsValidCppStandard(value), "is not a valid C++ standard to target",
                    [o EXCEPT !.runtime.cpp_standard = value])
     ELSE IF \E f \in RuntimeStringFlags : arg = Flag[f]
     THEN WithValue(TRUE, "",
                    [o EXCEPT !.runtime[CHOOSE f \in RuntimeStringFlags : arg = Flag[f]] = value])
     ELSE IF arg = Flag.opaque_types
     THEN WithValue(IsBoolValue(value), "option expects boolean value 'true' or 'false'",
                    [o EXCEPT !.runtime.opaque_types = (value = <<"t", "r", "u", "e">>)])
     ELSE IF arg = Flag.zero_copy_substream
     THEN WithValue(IsBoolValue(value), "option expects boolean value 'true' or 'false'",
                    [o EXCEPT !.runtime.zero_copy_substream = (value = <<"t", "r", "u", "e">>)])
     ELSE IF arg = Flag.ksc_exceptions THEN Switch([o EXCEPT !.throw_exceptions = TRUE])
     ELSE IF arg = Flag.ksc_json_output THEN Switch([o EXCEPT !.json_output = TRUE])
     ELSE IF arg = Flag.verbose
     THEN WithValue(TRUE, "", [o EXCEPT !.verbose = Append(@, value)])
     ELSE IF arg = Flag.no_auto_read THEN Switch([o EXCEPT !.runtime.auto_read = FALSE])
     ELSE IF arg = Flag.read_pos THEN Switch([o EXCEPT !.runtime.read_pos = TRUE])
     ELSE IF arg = Flag.debug
     THEN Switch([o EXCEPT !.runtime.auto_read = FALSE, !.runtime.read_pos = TRUE])
     ELSE IF arg = Flag.from_ir THEN WithValue(TRUE, "", [o EXCEPT !.from_ir = value])
     ELSE IF arg # <<>> /\ arg[1] = "-" /\ ~IsKnownOption(arg)
     THEN Fail("unknown option")
     ELSE Switch([o EXCEPT !.src_files = Append(@, arg)])

ParseCommandLine(argv) ==
  ParseArgs(argv, 1, [status |-> "kOk", options |-> DefaultCliOptions, message |-> ""])

\* the longest argument list
MaxArgs == 5

\* the arguments the sample command lines are made of
ClArgPool ==
  {Flag.w, Flag.read_write, Flag.t, <<"p", "y", "t", "h", "o", "n">>, Flag.d, Flag.zero_copy_substream, <<"t", "r", "u", "e">>,
   <<"x", ".", "k", "s", "y">>, Flag.h}

ClInit ==
  /\ cl_argv \in UpTo(ClArgPool, MaxArgs)
  /\ cl_result = NullOpt
  /\ cl_pc = "start"
  /\ RtIdle /\ LdIdle /\ CgIdle /\ ExIdle /\ GnIdle /\ VaIdle /\ MnIdle /\ FeIdle /\ KsIdle /\ EmIdle /\ LuIdle /\ DpIdle

ClParse ==
  /\ cl_pc = "start"
  /\ cl_result' = ParseCommandLine(cl_argv)
  /\ cl_pc' = "parsed"
  /\ UNCHANGED <<cl_argv, cl_rest>>

ClNext == ClParse

\* the options that are followed by their value
ValueFlags ==
  {Flag[f] : f \in {"t", "target", "d", "outdir", "I", "import_path", "cpp_standard",
                    "opaque_types", "zero_copy_substream", "verbose", "from_ir"}
                   \cup RuntimeStringFlags}

\* the positions from i on of the arguments that are read as an option or an
\* input file, not as the value of the option before them
RECURSIVE OptionPositions(_, _)
OptionPositions(argv, i) ==
  IF i > Len(argv) THEN {}
  ELSE {i} \cup OptionPositions(argv, IF argv[i] \in ValueFlags THEN i + 2 ELSE i + 1)

\* read-write is on, auto-read and zero-copy substreams are off
ReadWriteOptions(options) ==
  /\ options.runtime.read_write
  /\ ~options.runtime.auto_read
  /\ ~options.runtime.zero_copy_substream

\* C14 as stated: after a parse that returned kOk, -w or --read-write
\* anywhere in the argument list means read_write is on and auto_read and
\* zero_copy_substream are off
C14_ReadWriteAnywhere ==
  (/\ cl_pc = "parsed" /\ cl_result.status = "kOk"
   /\ \E i \in DOMAIN cl_argv : cl_argv[i] \in {Flag.w, Flag.read_write})
    => ReadWriteOptions(cl_result.options)

\* C14: after a parse that returned kOk, -w or --read-write given as an
\* option, wherever it stands among the other options, means read_write is
\* on and auto_read and zero_copy_substream are off; the argument that
\* follows an option with a value is that value and switches nothing
C14_ReadWriteOption ==
  (/\ cl_pc = "parsed" /\ cl_result.status = "kOk"
   /\ \E i \in OptionPositions(cl_argv, 1) : cl_argv[i] \in {Flag.w, Flag.read_write})
    => ReadWriteOptions(cl_result.options)

\* a parse that returned kOk of a command line with -w and, after it,
\* --zero-copy-substream true
C14_Witness ==
  /\ cl_pc = "parsed" /\ cl_result.status = "kOk"
  /\ \E i, j \in OptionPositions(cl_argv, 1) :
       /\ i < j /\ j < Len(cl_argv)
       /\ cl_argv[i] \in {Flag.w, Flag.read_write}
       /\ cl_argv[j] = Flag.zero_copy_substream /\ cl_argv[j + 1] = <<"t", "r", "u", "e">>

----------------------------------------------------------------------------
(* main.cpp: the load, the emission loop and the exit code                 *)

\* the most Specs one load yields
MaxSpecs == 3

\* the Specs a load yields have passed Validate: two the gate accepts and
\* one it refuses for its validation target
MnSpecPool ==
  LET Named(name) ==
        [DefaultSpec EXCEPT
           !.name = name,
           !.attrs = <<CgAttr([DefaultAttr EXCEPT !.id = <<"a">>])>>] @@ [params |-> <<>>]
  IN {spec \in {Named(<<"a">>), Named(<<"b">>),
                [Named(<<"c">>) EXCEPT
                   !.validations = <<[target |-> <<"j">>, condition_expr |-> ExprBool(TRUE),
                                      message |-> <<>>]>>]} :
        Validate(spec).ok}

\* what Emit*FromIr returns for a Spec whose rendering reads no absent field
EmitFromIr(spec, env) ==
  IF ~ValidateSupportedSubset(spec).ok THEN ValidateSupportedSubset(spec)
  ELSE IF env = "no_directory" THEN Err("failed to create output directory")
  ELSE IF env = "no_file" THEN Err("failed to open output file")
  ELSE Ok

\* ParseCommandLine returned kOk and ValidateBackendCompatibility "": there
\* is one target, or none and --from-ir
MnInit ==
  /\ mn_specs \in UpTo(MnSpecPool, MaxSpecs)
  /\ mn_target \in {NullOpt} \cup {Some(t) : t \in EmitTargets}
  /\ mn_from_ir \in BOOLEAN
  /\ mn_target = NullOpt => mn_from_ir
  /\ mn_env \in {"ok", "no_directory"}
  /\ mn_load_ok \in BOOLEAN
  /\ mn_i = 0 /\ mn_emitted = <<>> /\ mn_cout = <<>> /\ mn_cerr = <<>>
  /\ mn_exit = NullOpt
  /\ mn_pc = "load"
  /\ RtIdle /\ LdIdle /\ CgIdle /\ ExIdle /\ GnIdle /\ VaIdle /\ ClIdle /\ FeIdle /\ KsIdle /\ EmIdle /\ LuIdle /\ DpIdle

\* LoadGraphFromFileWithImports, or the four stages of the frontend
MnLoad ==
  /\ mn_pc = "load"
  /\ IF mn_load_ok
     THEN /\ mn_pc' = IF HasValue(mn_target) THEN "emit" ELSE "validated"
          /\ mn_i' = 1
          /\ UNCHANGED <<mn_cerr, mn_exit>>
     ELSE /\ mn_cerr' = Append(mn_cerr, [line |-> "Error: load failed", detail |-> <<>>])
          /\ mn_exit' = Some(1)
          /\ mn_pc' = "exited"
          /\ UNCHANGED mn_i
  /\ UNCHANGED <<mn_specs, mn_target, mn_from_ir, mn_env, mn_load_ok, mn_emitted, mn_cout,
                 mn_rest>>

\* the loop that goes on to the next Spec after a failed emission
MnEmitKeepsGoing ==
  /\ mn_pc = "emit"
  /\ mn_i <= Len(mn_specs)
  /\ IF EmitFromIr(mn_specs[mn_i], mn_env).ok
     THEN mn_emitted' = Append(mn_emitted, mn_specs[mn_i].name)
     ELSE UNCHANGED mn_emitted
  /\ mn_i' = mn_i + 1
  /\ UNCHANGED <<mn_specs, mn_target, mn_from_ir, mn_env, mn_load_ok, mn_cout, mn_cerr,
                 mn_exit, mn_pc, mn_rest>>

\* one turn of for (const auto& spec : specs): the Emit*FromIr call of the
\* target, the error and return 1, or the line on std::cout
MnEmit ==
  /\ mn_pc = "emit"
  /\ mn_i <= Len(mn_specs)
  /\ LET spec == mn_specs[mn_i]
         Turn(gen) ==
           IF ~gen.ok
           THEN /\ mn_cerr' = Append(mn_cerr, [line |-> "Error: IR codegen failed",
                                               detail |-> spec.name])
                /\ mn_exit' = Some(1)
                /\ mn_pc' = "exited"
                /\ UNCHANGED <<mn_i, mn_emitted, mn_cout>>
           ELSE /\ mn_emitted' = Append(mn_emitted, spec.name)
                /\ mn_cout' = Append(mn_cout,
                                     [line |-> IF mn_from_ir THEN "IR codegen succeeded"
                                               ELSE "Native .ksy codegen succeeded",
                                      detail |-> spec.name])
                /\ mn_i' = mn_i + 1
                /\ UNCHANGED <<mn_cerr, mn_exit, mn_pc>>
     IN Turn(EmitFromIr(spec, mn_env))
  /\ UNCHANGED <<mn_specs, mn_target, mn_from_ir, mn_env, mn_load_ok, mn_rest>>

\* return 0 after the loop
MnReturn ==
  /\ mn_pc = "emit"
  /\ mn_i > Len(mn_specs)
  /\ mn_exit' = Some(0)
  /\ mn_pc' = "exited"
  /\ UNCHANGED <<mn_specs, mn_target, mn_from_ir, mn_env, mn_load_ok, mn_i, mn_emitted,
                 mn_cout, mn_cerr, mn_rest>>

\* no target and --from-ir: the Specs are validated only
MnValidated ==
  /\ mn_pc = "validated"
  /\ mn_cout' = Append(mn_cout, [line |-> "IR validation succeeded", detail |-> <<>>])
  /\ mn_exit' = Some(0)
  /\ mn_pc' = "exited"
  /\ UNCHANGED <<mn_specs, mn_target, mn_from_ir, mn_env, mn_load_ok, mn_i, mn_emitted,
                 mn_cerr, mn_rest>>

MnNext == MnLoad \/ MnEmit \/ MnReturn \/ MnValidated

\* the Specs whose emission fails, by position
MnFailing == {k \in DOMAIN mn_specs : ~EmitFromIr(mn_specs[k], mn_env).ok}

\* the Specs are emitted one at a time in list order, up to an emission that
\* fails; after it main has reported the error and left with code 1; code 0
\* is left with only when every Spec is emitted
MnSequential ==
  /\ Len(mn_emitted) <= Len(mn_specs)
  /\ \A k \in DOMAIN mn_emitted :
       mn_emitted[k] = mn_specs[k].name /\ k \notin MnFailing
  /\ (mn_pc = "exited" /\ MnFailing # {})
       => /\ mn_exit = Some(1)
          /\ Len(mn_emitted) + 1 \in MnFailing
          /\ mn_cerr # <<>>
  /\ mn_exit = Some(0) => Len(mn_emitted) = Len(mn_specs)

\* C15 as stated: after a load that went well, whatever the command line
C15_SequentialEmission == mn_load_ok => MnSequential

\* C15: with a target on the command line main emits the loaded Specs one
\* at a time in list order, reports the first emission that fails and exits
\* with code 1 without emitting a later Spec, and exits with code 0 only
\* when every Spec is emitted; without a target (--from-ir alone) it emits
\* nothing and exits with code 0
C15_SequentialWithTarget ==
  /\ (mn_load_ok /\ HasValue(mn_target)) => MnSequential
  /\ (mn_load_ok /\ ~HasValue(mn_target) /\ mn_pc = "exited")
       => (mn_exit = Some(0) /\ mn_emitted = <<>>)

\* the second of three Specs fails: one is emitted, one is never tried
C15_Witness ==
  /\ mn_pc = "exited" /\ mn_exit = Some(1) /\ HasValue(mn_target)
  /\ Len(mn_emitted) = 1 /\ Len(mn_specs) = 3

----------------------------------------------------------------------------
(* frontend.cpp: ResolveImports on the inputs ParseKsyInputs has parsed.   *)
(* The files lie in one directory; a file is known by its name, and an     *)
(* import resolves to the file of that name if it is there.                *)

\* the most imports of one file
MaxFileImports == 2

FeNames == {"a", "b", "c"}

\* the disks: a.ksy and b.ksy are there, c.ksy may be; each file declares a
\* module id and imports up to MaxFileImports files
FeDisks ==
  LET File == [id : {"m", "n"},
               imports : {s \in UpTo(FeNames, MaxFileImports) : Distinct(s)}]
  IN UNION {[present -> File] : present \in {{"a", "b"}, FeNames}}

\* ParseKsyInputs: one ParsedInput for each given input
ParsedInput(disk, path) ==
  [source_path |-> path, module_name |-> disk[path].id, imports |-> disk[path].imports]

FeInit ==
  /\ fe_disk \in FeDisks
  /\ fe_roots \in {<<"a">>, <<"a", "b">>}
  /\ fe_files = [i \in DOMAIN fe_roots |-> ParsedInput(fe_disk, fe_roots[i])]
  /\ fe_visited = {} /\ fe_active = {} /\ fe_stack = <<>> /\ fe_i = 0
  /\ fe_result = Ok
  /\ fe_pc = "collide"
  /\ RtIdle /\ LdIdle /\ CgIdle /\ ExIdle /\ GnIdle /\ VaIdle /\ ClIdle /\ MnIdle /\ KsIdle /\ EmIdle /\ LuIdle /\ DpIdle

\* the loop over parsed->files that fills module_to_path: the first file
\* whose module id a file before it has
FeCollide ==
  /\ fe_pc = "collide"
  /\ LET Collides(i) ==
           \E j \in 1..(i - 1) :
             /\ fe_files[j].module_name = fe_files[i].module_name
             /\ fe_files[j].source_path # fe_files[i].source_path
         hits == {i \in DOMAIN fe_files : Collides(i)}
     IN IF hits # {}
        THEN /\ fe_result' = ErrAt("ImportCollisionError: module id collision",
                                   <<fe_files[CHOOSE i \in hits : \A h \in hits : i <= h]
                                       .module_name>>)
             /\ fe_pc' = "done"
             /\ UNCHANGED fe_i
        ELSE /\ fe_pc' = "roots"
             /\ fe_i' = 1
             /\ UNCHANGED fe_result
  /\ UNCHANGED <<fe_disk, fe_roots, fe_files, fe_visited, fe_active, fe_stack, fe_rest>>

\* for (size_t i = 0; i < roots; i++) dfs(parsed->files[i].source_path)
FeRoot ==
  /\ fe_pc = "roots"
  /\ fe_stack = <<>>
  /\ IF fe_i <= Len(fe_roots)
     THEN /\ fe_stack' = <<[p |-> fe_files[fe_i].source_path, at |-> "enter", found |-> 0,
                            k |-> 0, valid |-> TRUE]>>
          /\ UNCHANGED fe_pc
     ELSE /\ fe_pc' = "done"
          /\ UNCHANGED fe_stack
  /\ UNCHANGED <<fe_disk, fe_roots, fe_files, fe_visited, fe_active, fe_i, fe_result,
                 fe_rest>>

\* return Ok() of the innermost dfs: the caller goes on with its next import,
\* the loop over the roots with its next root
FeReturn(frames) ==
  /\ fe_stack' = SubSeq(frames, 1, Len(frames) - 1)
  /\ fe_i' = IF Len(frames) = 1 THEN fe_i + 1 ELSE fe_i

\* dfs(p) up to the loop over the imports: the tests of active and visited,
\* and the look-up of p in parsed->files.  A file that is not there is pushed
\* back; when the vector grows into new storage, the iterator `found` of
\* every dfs call below this one is left dangling.  Whether it grows is the
\* library's choice of capacity.
FeEnter ==
  /\ fe_pc = "roots"
  /\ fe_stack # <<>>
  /\ LET n == Len(fe_stack)
         top == fe_stack[n]
         At(path) == CHOOSE i \in DOMAIN fe_files : fe_files[i].source_path = path
         known == \E i \in DOMAIN fe_files : fe_files[i].source_path = top.p
         Loop(frames, found) ==
           fe_stack' = [frames EXCEPT ![n] = [@ EXCEPT !.at = "imports", !.found = found,
                                                      !.k = 1]]
     IN /\ top.at = "enter"
        /\ IF top.p \in fe_active
           THEN /\ fe_result' = ErrAt("ImportCycleError: import cycle detected at", <<top.p>>)
                /\ fe_pc' = "done"
                /\ UNCHANGED <<fe_files, fe_visited, fe_active, fe_stack, fe_i>>
           ELSE IF top.p \in fe_visited
           THEN /\ FeReturn(fe_stack)
                /\ UNCHANGED <<fe_files, fe_visited, fe_active, fe_result, fe_pc>>
           ELSE /\ fe_active' = fe_active \cup {top.p}
                /\ fe_visited' = fe_visited \cup {top.p}
                /\ IF known
                   THEN /\ Loop(fe_stack, At(top.p))
                        /\ UNCHANGED fe_files
                   ELSE /\ fe_files' = Append(fe_files, ParsedInput(fe_disk, top.p))
                        /\ \E grows \in BOOLEAN :
                             Loop([j \in DOMAIN fe_stack |->
                                     [fe_stack[j] EXCEPT !.valid = @ /\ (j = n \/ ~grows)]],
                                  Len(fe_files) + 1)
                /\ UNCHANGED <<fe_result, fe_pc, fe_i>>
  /\ UNCHANGED <<fe_disk, fe_roots, fe_rest>>

\* one turn of for (const auto& imp : found->imports): ResolveOneImport from
\* found->source_path, then dfs(resolved).  Through a dangling `found` the
\* read of source_path is undefined: the old storage may still hold the
\* path, the read may kill the process, or it yields a path from which the
\* import does not resolve.
FeImport ==
  /\ fe_pc = "roots"
  /\ fe_stack # <<>>
  /\ LET n == Len(fe_stack)
         top == fe_stack[n]
         imports == fe_files[top.found].imports
         Resolve(imp) ==
           IF imp \in DOMAIN fe_disk
           THEN /\ fe_stack' = Append([fe_stack EXCEPT ![n] = [@ EXCEPT !.k = top.k + 1]],
                                      [p |-> imp, at |-> "enter", found |-> 0, k |-> 0,
                                       valid |-> TRUE])
                /\ UNCHANGED <<fe_result, fe_pc>>
           ELSE /\ fe_result' = ErrAt("ImportError: unable to resolve import", <<imp>>)
                /\ fe_pc' = "done"
                /\ UNCHANGED fe_stack
     IN /\ top.at = "imports"
        /\ top.k <= Len(imports)
        /\ \/ Resolve(imports[top.k])
           \/ /\ ~top.valid
              /\ \/ /\ fe_pc' = "crashed"
                    /\ UNCHANGED <<fe_result, fe_stack>>
                 \/ /\ fe_result' = ErrAt("ImportError: unable to resolve import",
                                          <<imports[top.k]>>)
                    /\ fe_pc' = "done"
                    /\ UNCHANGED fe_stack
  /\ UNCHANGED <<fe_disk, fe_roots, fe_files, fe_visited, fe_active, fe_i, fe_rest>>

\* active.erase(key); return Ok()
FeLeave ==
  /\ fe_pc = "roots"
  /\ fe_stack # <<>>
  /\ LET top == fe_stack[Len(fe_stack)]
     IN /\ top.at = "imports"
        /\ top.k > Len(fe_files[top.found].imports)
        /\ fe_active' = fe_active \ {top.p}
        /\ FeReturn(fe_stack)
  /\ UNCHANGED <<fe_disk, fe_roots, fe_files, fe_visited, fe_result, fe_pc, fe_rest>>

FeNext == FeCollide \/ FeRoot \/ FeEnter \/ FeImport \/ FeLeave

\* the files f imports that are on the disk
ImportsOf(disk, f) == {disk[f].imports[k] : k \in DOMAIN disk[f].imports} \cap DOMAIN disk

\* the files being compiled: the given inputs and what their imports reach
RECURSIVE Compiled(_, _)
Compiled(disk, files) ==
  LET more == files \cup UNION {ImportsOf(disk, f) : f \in files}
  IN IF more = files THEN files ELSE Compiled(disk, more)

\* every import of a compiled file resolves, and no file is reached from its
\* own imports
FeResolvable(disk, files) ==
  \A f \in Compiled(disk, files) :
    /\ \A k \in DOMAIN disk[f].imports : disk[f].imports[k] \in DOMAIN disk
    /\ f \notin Compiled(disk, ImportsOf(disk, f))

\* C16: when two files among those being compiled declare the same module
\* id, ResolveImports fails with an ImportCollisionError; stated for import
\* graphs in which nothing else can fail, every import being there and none
\* making a cycle
C16_ImportCollision ==
  (/\ fe_pc = "done"
   /\ FeResolvable(fe_disk, {fe_roots[i] : i \in DOMAIN fe_roots})
   /\ \E f, g \in Compiled(fe_disk, {fe_roots[i] : i \in DOMAIN fe_roots}) :
        f # g /\ fe_disk[f].id = fe_disk[g].id)
    => /\ ~fe_result.ok
       /\ fe_result.error = "ImportCollisionError: module id collision"
----------------------------------------------------------------------------
(* The runtime's kstream over a seekable std::istream, as the generated    *)
(* code and test_runtime_stream_eof_semantics.cpp use it                   *)

\* read_bytes(n) that leaves the position where the short read ended
read_bytes_no_rewind(data, pos, n) ==
  IF n > Len(data) - pos
  THEN [raised |-> TRUE, bytes |-> <<>>, pos |-> Len(data)]
  ELSE [raised |-> FALSE, bytes |-> SubSeq(data, pos + 1, pos + n), pos |-> pos + n]

\* read_bytes(n) at position pos: the n bytes and the position after them;
\* a short read rewinds to the position before the call and throws
read_bytes(data, pos, n) ==
  IF n > Len(data) - pos
  THEN [raised |-> TRUE, bytes |-> <<>>, pos |-> pos]
  ELSE [raised |-> FALSE, bytes |-> SubSeq(data, pos + 1, pos + n), pos |-> pos + n]

KsInit ==
  /\ ks_data \in UpTo(0..MaxByte, MaxData)
  /\ ks_pos = 0 /\ ks_calls = 0 /\ ks_last = NullOpt
  /\ RtIdle /\ LdIdle /\ CgIdle /\ ExIdle /\ GnIdle /\ VaIdle /\ ClIdle /\ MnIdle /\ FeIdle /\ EmIdle /\ LuIdle /\ DpIdle

\* ks.read_bytes(n)
KsReadBytes ==
  /\ ks_calls < MaxCalls
  /\ \E n \in 0..(MaxData + 1) :
       LET r == read_bytes(ks_data, ks_pos, n)
       IN /\ ks_pos' = r.pos
          /\ ks_last' = Some([op |-> "read_bytes", n |-> n, before |-> ks_pos,
                              raised |-> r.raised, bytes |-> r.bytes])
  /\ ks_calls' = ks_calls + 1
  /\ UNCHANGED <<ks_data, ks_rest>>

\* ks.seek(p) to a position of the input
KsSeek ==
  /\ ks_calls < MaxCalls
  /\ \E p \in 0..Len(ks_data) :
       /\ ks_pos' = p
       /\ ks_last' = Some([op |-> "seek", n |-> p, before |-> ks_pos, raised |-> FALSE,
                           bytes |-> <<>>])
  /\ ks_calls' = ks_calls + 1
  /\ UNCHANGED <<ks_data, ks_rest>>

KsNext == KsReadBytes \/ KsSeek

\* the last call was a read_bytes for more bytes than were left
KsShortRead ==
  /\ HasValue(ks_last)
  /\ ValueOf(ks_last).op = "read_bytes"
  /\ ValueOf(ks_last).n > Len(ks_data) - ValueOf(ks_last).before

\* C17: a read_bytes(n) for more bytes than remain raises and leaves the
\* position of the stream where it was before the call
C17_ShortReadRewinds ==
  KsShortRead => (ValueOf(ks_last).raised /\ ks_pos = ValueOf(ks_last).before)

\* a short read in the middle of the input, after bytes were read
C17_Witness ==
  KsShortRead /\ ValueOf(ks_last).before > 0 /\ ValueOf(ks_last).before < Len(ks_data)

----------------------------------------------------------------------------
(* codegen.cpp: the C++ header and source of a Spec with nested scopes.    *)
(* The scopes are taken as DecodeEmbeddedScopes returns them: a map from   *)
(* scope name to the Spec of the scope.  The root class is named <<>>.     *)

HasSwitchElseCase(attr) ==
  \E i \in DOMAIN attr.switch_cases : ~HasValue(attr.switch_cases[i].match_expr)

\* the parts[1..upto] joined with "::"
JoinScopePath(parts, upto) ==
  Concat([i \in 1..upto |-> (IF i > 1 THEN <<":", ":">> ELSE <<>>) \o parts[i]])

ParentScopeName(scope_name) ==
  LET parts == SplitScopePath(scope_name, <<>>)
  IN IF Len(parts) <= 1 THEN <<>> ELSE JoinScopePath(parts, Len(parts) - 1)

\* the characters of the sample scope names in the order of their codes
ScopeChars == <<"0", ":", "a", "b", "c">>

\* operator< of std::string on names over ScopeChars
RECURSIVE StringLess(_, _)
StringLess(x, y) ==
  LET Code(c) == CHOOSE i \in DOMAIN ScopeChars : ScopeChars[i] = c
  IN IF y = <<>> THEN FALSE
     ELSE IF x = <<>> THEN TRUE
     ELSE IF Head(x) # Head(y) THEN Code(Head(x)) < Code(Head(y))
     ELSE StringLess(Tail(x), Tail(y))

\* std::sort of a set of distinct names
RECURSIVE SortNames(_)
SortNames(names) ==
  IF names = {} THEN <<>>
  ELSE LET first == CHOOSE n \in names : \A o \in names \ {n} : StringLess(n, o)
       IN <<first>> \o SortNames(names \ {first})

DirectChildScopes(scopes, parent_scope) ==
  SortNames({n \in DOMAIN scopes : ParentScopeName(n) = parent_scope})

\* a member a class declares
Member(access, name) == [access |-> access, name |-> name]

\* the members RenderHeader declares in the root class
RootMembers(spec) ==
  {Member("public", spec.instances[i].id) : i \in DOMAIN spec.instances}
  \cup {Member("public", spec.attrs[i].id) : i \in DOMAIN spec.attrs}
  \cup {Member("public", <<"_", "r", "o", "o", "t">>),
        Member("public", <<"_", "p", "a", "r", "e", "n", "t">>)}
  \cup {Member("private", <<"f", "_">> \o spec.instances[i].id) : i \in DOMAIN spec.instances}
  \cup {Member("private", <<"m", "_">> \o spec.instances[i].id) : i \in DOMAIN spec.instances}
  \cup {Member("private", <<"m", "_">> \o spec.attrs[i].id) : i \in DOMAIN spec.attrs}
  \cup {Member("private", <<"m", "_", "_", "r", "o", "o", "t">>),
        Member("private", <<"m", "_", "_", "p", "a", "r", "e", "n", "t">>)}

\* the members EmitNestedClassHeader declares in the class of a scope
NestedMembers(scope_spec) ==
  LET nullable == {i \in DOMAIN scope_spec.attrs :
                     /\ HasValue(scope_spec.attrs[i].switch_on)
                     /\ ~HasSwitchElseCase(scope_spec.attrs[i])}
  IN {Member("public", scope_spec.attrs[i].id) : i \in DOMAIN scope_spec.attrs}
     \cup {Member("public", <<"_", "r", "o", "o", "t">>),
           Member("public", <<"_", "p", "a", "r", "e", "n", "t">>)}
     \cup {Member("private", <<"m", "_">> \o scope_spec.attrs[i].id) :
             i \in DOMAIN scope_spec.attrs}
     \cup {Member("private", <<"n", "_">> \o scope_spec.attrs[i].id) : i \in nullable}
     \cup {Member("public", <<"_", "i", "s", "_", "n", "u", "l", "l", "_">>
                               \o scope_spec.attrs[i].id) : i \in nullable}
     \cup {Member("private", <<"m", "_", "_", "r", "o", "o", "t">>),
           Member("private", <<"m", "_", "_", "p", "a", "r", "e", "n", "t">>)}

\* the classes of the header: the root and the scopes EmitNestedClassHeader
\* reaches from it, child by child
RECURSIVE ReachedScopes(_, _)
ReachedScopes(scopes, parent_scope) ==
  LET children == DirectChildScopes(scopes, parent_scope)
  IN Concat([i \in DOMAIN children |->
               <<children[i]>> \o ReachedScopes(scopes, children[i])])

RenderHeader(spec, scopes) ==
  LET reached == {ReachedScopes(scopes, <<>>)[i] : i \in DOMAIN ReachedScopes(scopes, <<>>)}
  IN [c \in {<<>>} \cup reached |->
        IF c = <<>> THEN RootMembers(spec) ELSE NestedMembers(scopes[c])]

\* a statement of a generated body; cases are the branches of a switch or
\* of a lambda, tail is what the lambda does when no branch returns
Stmt(op, id) ==
  [op |-> op, id |-> id, cond |-> NullOpt, on |-> DefaultExpr, value |-> FALSE,
   cases |-> <<>>, tail |-> <<>>]

\* the statements of the root _read() for one attr without repeat
RootReadAttr(attr) ==
  LET read == Stmt("read", attr.id)
      throw == Stmt("throw", attr.id)
      matched == SelectSeq(attr.switch_cases, LAMBDA c : HasValue(c.match_expr))
      native ==
        [c \in DOMAIN attr.switch_cases |->
           [label |-> IF HasValue(attr.switch_cases[c].match_expr)
                      THEN Some(ExprInt(ValueOf(attr.switch_cases[c].match_expr).int_value))
                      ELSE NullOpt,
            body |-> <<read>>]]
        \o (IF HasSwitchElseCase(attr) THEN <<>>
            ELSE <<[label |-> NullOpt, body |-> <<throw>>]>>)
      lambda == [c \in DOMAIN matched |-> [label |-> matched[c].match_expr, body |-> <<read>>]]
  IN IF ~HasValue(attr.switch_on) THEN <<[read EXCEPT !.cond = attr.if_expr]>>
     ELSE IF CanRenderNativeSwitch(attr)
     THEN <<[Stmt("switch", attr.id) EXCEPT !.cond = attr.if_expr,
                                            !.on = ValueOf(attr.switch_on),
                                            !.cases = native]>>
     ELSE <<[Stmt("lambda", attr.id) EXCEPT
               !.cond = attr.if_expr, !.on = ValueOf(attr.switch_on), !.cases = lambda,
               !.tail = IF HasSwitchElseCase(attr) THEN <<read>> ELSE <<throw>>]>>

\* the statements of the _read() of a nested class for one attr without
\* repeat
NestedReadAttr(attr) ==
  LET has_else == HasSwitchElseCase(attr)
      Case(c) ==
        [label |-> IF HasValue(c.match_expr) THEN Some(ExprInt(ValueOf(c.match_expr).int_value))
                   ELSE NullOpt,
         body |-> (IF ~has_else \/ ~HasValue(c.match_expr)
                   THEN <<[Stmt("set_n", attr.id) EXCEPT !.value = FALSE]>> ELSE <<>>)
                  \o <<Stmt("read", attr.id)>>]
  IN IF ~HasValue(attr.switch_on) THEN <<Stmt("read", attr.id)>>
     ELSE (IF has_else THEN <<>> ELSE <<[Stmt("set_n", attr.id) EXCEPT !.value = TRUE]>>)
          \o <<[Stmt("switch", attr.id) EXCEPT
                  !.on = ValueOf(attr.switch_on),
                  !.cases = [c \in DOMAIN attr.switch_cases |-> Case(attr.switch_cases[c])]]>>

\* a section of the source file: a member function of a class
Section(kind, class, id, body) == [kind |-> kind, class |-> class, id |-> id, body |-> body]

\* what EmitNestedClassSource writes for a scope: its class, then the
\* classes of its children
RECURSIVE EmitNestedClassSource(_, _)
EmitNestedClassSource(scope_name, scopes) ==
  LET attrs == scopes[scope_name].attrs
      children == DirectChildScopes(scopes, scope_name)
      nullable == SelectSeq(attrs, LAMBDA a : HasValue(a.switch_on) /\ ~HasSwitchElseCase(a))
  IN <<Section("ctor", scope_name, <<>>, <<Stmt("call_read", <<>>)>>),
       Section("read", scope_name, <<>>,
               Concat([i \in DOMAIN attrs |-> NestedReadAttr(attrs[i])])),
       Section("dtor", scope_name, <<>>, <<Stmt("call_clean_up", <<>>)>>),
       Section("clean_up", scope_name, <<>>,
               [i \in DOMAIN nullable |-> Stmt("test_n", nullable[i].id)])>>
     \o Concat([i \in DOMAIN children |-> EmitNestedClassSource(children[i], scopes)])

\* the sections of the root class up to _clean_up()
RootSections(spec) ==
  LET parse == SelectSeq(spec.instances, LAMBDA inst : inst.kind = "kParse")
  IN <<Section("ctor", <<>>, <<>>,
               [i \in DOMAIN spec.instances |->
                  [Stmt("set_f", spec.instances[i].id) EXCEPT !.value = FALSE]]
               \o <<Stmt("call_read", <<>>)>>),
       Section("read", <<>>, <<>>, Concat([i \in DOMAIN spec.attrs |-> RootReadAttr(spec.attrs[i])])),
       Section("dtor", <<>>, <<>>, <<Stmt("call_clean_up", <<>>)>>),
       Section("clean_up", <<>>, <<>>, [i \in DOMAIN parse |-> Stmt("test_f", parse[i].id)])>>

\* the bodies of the classes of the scopes, from the children of the root on
NestedSections(scopes) ==
  Concat([i \in DOMAIN DirectChildScopes(scopes, <<>>) |->
            EmitNestedClassSource(DirectChildScopes(scopes, <<>>)[i], scopes)])

\* the accessor bodies of the instances of the root
AccessorSections(spec) ==
  [i \in DOMAIN spec.instances |->
     Section("accessor", <<>>, spec.instances[i].id, <<Stmt("accessor", spec.instances[i].id)>>)]

\* RenderSource with the accessor bodies written before the nested classes
RenderSourceAccessorsFirst(spec, scopes) ==
  RootSections(spec) \o AccessorSections(spec) \o NestedSections(scopes)

RenderSource(spec, scopes) ==
  RootSections(spec) \o NestedSections(scopes) \o AccessorSections(spec)

\* the statements of body from the k-th on, run on the state st of the
\* object and the stream: m and n are the members set so far
RECURSIVE RunRead(_, _, _, _)
RunRead(body, k, st, data) ==
  LET s == body[k]
      Go(next) == IF next.out = "running" THEN RunRead(body, k + 1, next, data) ELSE next
      Read(r) == IF r.ok THEN [st EXCEPT !.m = (s.id :> r.value) @@ @, !.pos = r.pos]
                 ELSE [st EXCEPT !.out = "threw", !.what = "end of stream"]
      on == EvalExpr(s.on, st.m)
      Hit(c) == HasValue(s.cases[c].label) /\ EvalExpr(ValueOf(s.cases[c].label), st.m) = on
      hits == {c \in DOMAIN s.cases : Hit(c)}
      defaults == {c \in DOMAIN s.cases : ~HasValue(s.cases[c].label)}
      First(set) == CHOOSE c \in set : \A d \in set : c <= d
      Branch(stmts) == IF stmts = <<>> THEN st ELSE RunRead(stmts, 1, st, data)
  IN IF k > Len(body) THEN st
     ELSE IF HasValue(s.cond) /\ ~EvalExpr(ValueOf(s.cond), st.m) THEN Go(st)
     ELSE CASE s.op = "read" -> Go(Read(ReadU1(data, st.pos)))
            [] s.op = "throw" ->
                 [st EXCEPT !.out = "threw", !.what = "switch-on has no matching case"]
            [] s.op = "set_n" -> Go([st EXCEPT !.n = (s.id :> s.value) @@ @])
            [] s.op = "switch" ->
                 Go(IF hits # {} THEN Branch(s.cases[First(hits)].body)
                    ELSE IF defaults # {} THEN Branch(s.cases[First(defaults)].body)
                    ELSE st)
            [] s.op = "lambda" ->
                 Go(IF hits # {} THEN Branch(s.cases[First(hits)].body) ELSE Branch(s.tail))

\* the most scopes of a sample
MaxScopes == 3

\* the root Specs and the scope Specs of the samples: an attr a of one byte
\* and an attr b that switches on a, with and without an else case, its
\* cases matched by literals (native switch) or by an expression (lambda)
EmAttrLists ==
  LET A == CgAttr([DefaultAttr EXCEPT !.id = <<"a">>])
      Case(m) == [match_expr |-> m, type |-> PrimitiveRef("kU1")]
      B(cases) == CgAttr([DefaultAttr EXCEPT !.id = <<"b">>,
                                             !.switch_on = Some(ExprName(<<"a">>)),
                                             !.switch_cases = cases])
      C0 == Case(Some(ExprInt(0)))
      P1 == Case(Some(ExprBinary(<<"+">>, ExprInt(0), ExprInt(1))))
      E == Case(NullOpt)
  IN [native |-> {<<A>>, <<A, B(<<C0>>)>>, <<A, B(<<C0, E>>)>>},
      lambda |-> {<<A, B(<<C0, P1>>)>>, <<A, B(<<P1, E>>)>>}]

EmInstanceLists ==
  LET X(id) == [CgInstance(id) EXCEPT !.value_expr = ExprInt(1)]
  IN {<<>>, <<X(<<"x">>)>>, <<[X(<<"y">>) EXCEPT !.kind = "kParse"], X(<<"x">>)>>}

EmScopeNames == {<<"a">>, <<"b">>, <<"a", ":", ":", "b">>, <<"a", "0">>}

\* a Spec the gate accepts, and the scopes decoded from its TypeDefs
EmInit ==
  /\ em_spec \in {s \in {[CgBaseSpec EXCEPT !.attrs = a, !.instances = i] :
                          a \in EmAttrLists.native \cup EmAttrLists.lambda,
                          i \in EmInstanceLists} : ValidateSupportedSubset(s).ok}
  /\ \E names \in {n \in SUBSET EmScopeNames : Cardinality(n) <= MaxScopes} :
       em_scopes \in [names -> {[CgBaseSpec EXCEPT !.attrs = a] : a \in EmAttrLists.native}]
  /\ em_header = <<>> /\ em_source = <<>>
  /\ em_class = <<>> /\ em_data = <<>> /\ em_run = NullOpt
  /\ em_pc = "gated"
  /\ RtIdle /\ LdIdle /\ CgIdle /\ ExIdle /\ GnIdle /\ VaIdle /\ ClIdle /\ MnIdle /\ FeIdle /\ KsIdle /\ LuIdle /\ DpIdle

\* header << RenderHeader(spec);
EmHeader ==
  /\ em_pc = "gated"
  /\ em_header' = RenderHeader(em_spec, em_scopes)
  /\ em_pc' = "header"
  /\ UNCHANGED <<em_spec, em_scopes, em_source, em_class, em_data, em_run, em_rest>>

\* source << RenderSource(spec);
EmSource ==
  /\ em_pc = "header"
  /\ em_source' = RenderSource(em_spec, em_scopes)
  /\ em_pc' = "emitted"
  /\ UNCHANGED <<em_spec, em_scopes, em_header, em_class, em_data, em_run, em_rest>>

\* the ids whose n_<id> the statements of a body assign or test, those of
\* the branches of its switches included
NullFlagUses(body) ==
  LET Flat(stmts) == {stmts[k].id : k \in {j \in DOMAIN stmts : stmts[j].op \in {"set_n", "test_n"}}}
  IN Flat(body)
     \cup UNION {UNION {Flat(body[k].cases[c].body) : c \in DOMAIN body[k].cases} :
                   k \in DOMAIN body}

\* the compiler reads the emitted files: a member function that names an
\* n_<id> its class does not declare makes the source ill-formed
EmBuild ==
  /\ em_pc = "emitted"
  /\ em_pc' = IF \A k \in DOMAIN em_source :
                   \A id \in NullFlagUses(em_source[k].body) :
                     Member("private", <<"n", "_">> \o id) \in em_header[em_source[k].class]
              THEN "built" ELSE "ill_formed"
  /\ UNCHANGED <<em_spec, em_scopes, em_header, em_source, em_class, em_data, em_run, em_rest>>

\* an object of an emitted class is built over a stream: the constructor
\* calls _read()
EmConstruct ==
  /\ em_pc = "built"
  /\ \E class \in DOMAIN em_header, data \in [1..2 -> 0..MaxByte] :
       LET read == SelectSeq(em_source, LAMBDA sec : sec.kind = "read" /\ sec.class = class)
       IN /\ em_class' = class
          /\ em_data' = data
          /\ em_run' = Some([RunRead(read[1].body, 1,
                                     [pos |-> 0, m |-> <<>>, n |-> <<>>, out |-> "running",
                                      what |-> ""], data)
                               EXCEPT !.out = IF @ = "running" THEN "returned" ELSE @])
  /\ em_pc' = "constructed"
  /\ UNCHANGED <<em_spec, em_scopes, em_header, em_source, em_rest>>

EmNext == EmHeader \/ EmSource \/ EmBuild \/ EmConstruct


----------------------------------------------------------------------------
(* Claims about the emitted C++ classes                                    *)

\* the attrs of an emitted class
EmAttrsOf(class) == IF class = <<>> THEN em_spec.attrs ELSE em_scopes[class].attrs

\* the switch-on attrs of the built class that have no repeat and no else
\* case, and whose switch value, with the members _read() has set, matches
\* none of their cases
EmUnmatched ==
  LET m == ValueOf(em_run).m
      attrs == EmAttrsOf(em_class)
  IN {i \in DOMAIN attrs :
        /\ HasValue(attrs[i].switch_on) /\ attrs[i].repeat = "kNone"
        /\ ~HasSwitchElseCase(attrs[i])
        /\ ExprNames(ValueOf(attrs[i].switch_on)) \subseteq DOMAIN m
        /\ \A c \in DOMAIN attrs[i].switch_cases :
             EvalExpr(ValueOf(attrs[i].switch_cases[c].match_expr), m)
               # EvalExpr(ValueOf(attrs[i].switch_on), m)}

\* C22: when the switch value of a non-repeated switch-on attr without an
\* else case matches none of the cases, the generated _read() throws
\* std::runtime_error("switch-on has no matching case"), in the root class
\* (native switch and lambda) and in the classes of nested scopes
C22_NoMatchThrows ==
  (em_pc = "constructed" /\ EmUnmatched # {})
    => /\ ValueOf(em_run).out = "threw"
       /\ ValueOf(em_run).what = "switch-on has no matching case"

\* C23: every class of the header, the root and the nested ones, declares
\* `bool n_<id>` and a public `_is_null_<id>()` for exactly its switch-on
\* attrs without an else case, and every n_<id> the source assigns or tests
\* in a member function of a class is declared in that class
C23_NullFlags ==
  LET Name(prefix, id) == prefix \o id
      Nullable(attr) == HasValue(attr.switch_on) /\ ~HasSwitchElseCase(attr)
  IN em_pc \notin {"gated", "header"}
       => \A class \in DOMAIN em_header :
            /\ \A i \in DOMAIN EmAttrsOf(class) :
                 LET attr == EmAttrsOf(class)[i]
                 IN /\ Nullable(attr)
                        <=> Member("private", Name(<<"n", "_">>, attr.id)) \in em_header[class]
                    /\ Nullable(attr)
                        <=> Member("public", Name(<<"_", "i", "s", "_", "n", "u", "l", "l", "_">>,
                                                  attr.id)) \in em_header[class]
            /\ \A k \in DOMAIN em_source :
                 em_source[k].class = class
                   => \A id \in NullFlagUses(em_source[k].body) :
                        Member("private", Name(<<"n", "_">>, id)) \in em_header[class]

\* the sections of the root class up to _clean_up() open the source file
EmRootFirst ==
  /\ Len(em_source) >= 4
  /\ \A k \in 1..4 : em_source[k].class = <<>>
  /\ <<em_source[1].kind, em_source[2].kind, em_source[3].kind, em_source[4].kind>>
       = <<"ctor", "read", "dtor", "clean_up">>

\* the accessor bodies are those of the instances of the root, one each, in
\* source order
EmAccessorsInOrder ==
  LET accessors == SelectSeq(em_source, LAMBDA sec : sec.kind = "accessor")
  IN /\ Len(accessors) = Len(em_spec.instances)
     /\ \A i \in DOMAIN accessors :
          accessors[i].class = <<>> /\ accessors[i].id = em_spec.instances[i].id

\* of two nested classes with one parent, the one of the lesser scope name
\* comes first
EmSiblingsInOrder ==
  \A j, k \in DOMAIN em_source :
    (/\ j < k /\ em_source[j].kind = "ctor" /\ em_source[k].kind = "ctor"
     /\ em_source[j].class # <<>>
     /\ ParentScopeName(em_source[j].class) = ParentScopeName(em_source[k].class))
      => StringLess(em_source[j].class, em_source[k].class)

\* every section of the first kind stands before every section of the second
EmBefore(first(_), second(_)) ==
  \A j, k \in DOMAIN em_source : (first(em_source[j]) /\ second(em_source[k])) => j < k

EmIsAccessor(sec) == sec.kind = "accessor"

EmIsNested(sec) == sec.class # <<>>

EmIsRootHead(sec) == sec.class = <<>> /\ sec.kind # "accessor"

\* C24 as stated: the source file holds the root constructor, _read,
\* destructor and _clean_up, then the accessor bodies of the root's
\* instances, one per instance in source order, and only then the bodies of
\* the nested classes, siblings in lexicographic scope order
C24_AccessorsThenNested ==
  em_pc \notin {"gated", "header"}
    => /\ EmRootFirst /\ EmAccessorsInOrder /\ EmSiblingsInOrder
       /\ EmBefore(EmIsRootHead, EmIsAccessor)
       /\ EmBefore(EmIsAccessor, EmIsNested)

\* C24: the source file holds the root constructor, _read, destructor and
\* _clean_up, then the bodies of the nested classes, siblings in
\* lexicographic scope order, and only then the accessor bodies of the
\* root's instances, one per instance in source order
C24_NestedThenAccessors ==
  em_pc \notin {"gated", "header"}
    => /\ EmRootFirst /\ EmAccessorsInOrder /\ EmSiblingsInOrder
       /\ EmBefore(EmIsRootHead, EmIsNested)
       /\ EmBefore(EmIsNested, EmIsAccessor)

\* C24 happens: a source file is emitted for a Spec with two instances and
\* three scopes, one of them the child of another
C24_Witness ==
  /\ em_pc = "emitted"
  /\ Len(em_spec.instances) = 2
  /\ DOMAIN em_scopes = {<<"a">>, <<"a", "0">>, <<"a", ":", ":", "b">>}
  /\ Len(SelectSeq(em_source, EmIsNested)) = 12
----------------------------------------------------------------------------
(* codegen.cpp: the expressions of RenderLuaModule                         *)

\* the lambda expr of RenderLuaModule
RECURSIVE LuaExpr(_, _, _, _, _, _)
LuaExpr(e, parent_prec, repeat_item, attrs, property_instances, known_instances) ==
  LET Sub(x, prec) == LuaExpr(x, prec, repeat_item, attrs, property_instances, known_instances)
      self == <<"s", "e", "l", "f">>
      op == NormalizeOp(e.text)
      word == IF op = <<"&", "&">> THEN <<"a", "n", "d">>
              ELSE IF op = <<"|", "|">> THEN <<"o", "r">> ELSE op
      prec == ExprPrecedence(e)
      Wrap(rendered) == IF prec <= parent_prec THEN <<"(">> \o rendered \o <<")">> ELSE rendered
  IN CASE e.kind = "kInt" -> IntToChars(e.int_value)
       [] e.kind = "kBool" ->
            IF e.bool_value THEN <<"t", "r", "u", "e">> ELSE <<"f", "a", "l", "s", "e">>
       [] e.kind = "kName" ->
            IF repeat_item # <<>> /\ e.text = <<"_">> THEN repeat_item
            ELSE IF e.text \in attrs THEN self \o <<".">> \o e.text
            ELSE IF e.text \in property_instances THEN self \o <<".">> \o e.text
            ELSE IF e.text \in known_instances THEN self \o <<":">> \o e.text \o <<"(", ")">>
            ELSE e.text
       [] e.kind = "kUnary" ->
            IF op = <<"!">> THEN <<"(", "n", "o", "t", " ">> \o Sub(ValueOf(e.lhs), 90) \o <<")">>
            ELSE <<"(">> \o op \o Sub(ValueOf(e.lhs), 90) \o <<")">>
       [] e.kind = "kBinary" ->
            Wrap(Sub(ValueOf(e.lhs), prec) \o <<" ">> \o word \o <<" ">>
                 \o Sub(ValueOf(e.rhs), prec + 1))

\* the first loop of RenderLuaModule over the instances: the ids of the
\* parse instances, up to the first one of type str, where the loop breaks
RECURSIVE PropertyInstances(_, _)
PropertyInstances(instances, user_types) ==
  LET inst == Head(instances)
      resolved == ResolvePrimitiveType(inst.type, user_types)
      primitive == IF HasValue(resolved) THEN ValueOf(resolved) ELSE "kU1"
  IN IF instances = <<>> THEN {}
     ELSE IF inst.kind # "kParse" THEN PropertyInstances(Tail(instances), user_types)
     ELSE IF primitive = "kStr" THEN {inst.id}
     ELSE {inst.id} \cup PropertyInstances(Tail(instances), user_types)

\* an expression of the Spec and the text written for it
Rendered(e, repeat_item, property_instances, known_instances) ==
  [expr |-> e, repeat_item |-> repeat_item,
   text |-> LuaExpr(e, -1, repeat_item, {lu_spec.attrs[i].id : i \in DOMAIN lu_spec.attrs},
                    property_instances, known_instances)]

\* the expressions _read() holds for one attr
LuaAttrExprs(attr, user_types, property_instances, known_instances) ==
  LET resolved == ResolvePrimitiveType(attr.type, user_types)
      primitive == IF HasValue(resolved) THEN ValueOf(resolved) ELSE "kU1"
      R(e, item) == <<Rendered(e, item, property_instances, known_instances)>>
      size == IF primitive = "kBytes" /\ HasValue(attr.size_expr)
              THEN R(ValueOf(attr.size_expr), <<>>) ELSE <<>>
  IN CASE attr.repeat = "kExpr" -> R(ValueOf(attr.repeat_expr), <<>>) \o size
       [] attr.repeat = "kUntil" -> size \o R(ValueOf(attr.repeat_expr), RepeatItem)
       [] OTHER -> size

\* the expressions the getter or the method of one instance holds
LuaInstanceExprs(inst, user_types, property_instances, known_instances) ==
  LET resolved == ResolvePrimitiveType(inst.type, user_types)
      primitive == IF HasValue(resolved) THEN ValueOf(resolved) ELSE "kU1"
      R(opt) == IF HasValue(opt)
                THEN <<Rendered(ValueOf(opt), <<>>, property_instances, known_instances)>>
                ELSE <<>>
  IN IF inst.kind = "kParse"
     THEN R(inst.pos_expr) \o (IF primitive \in {"kBytes", "kStr"} THEN R(inst.size_expr) ELSE <<>>)
     ELSE R(Some(inst.value_expr))

\* the instances of the samples: value instances x and z, parse instances
\* y (one byte) and s (a string), which refer to an attr or to one another
LuInstancePool ==
  LET I(id) == CgInstance(id)
      names == {ExprName(<<"a">>), ExprName(<<"x">>), ExprName(<<"y">>)}
  IN {[I(<<"x">>) EXCEPT !.value_expr = ExprInt(1)]}
     \cup {[I(<<"z">>) EXCEPT !.value_expr = e] : e \in names}
     \cup {[I(<<"y">>) EXCEPT !.kind = "kParse", !.pos_expr = p] :
             p \in {NullOpt, Some(ExprName(<<"x">>))}}
     \cup {[I(<<"s">>) EXCEPT !.kind = "kParse", !.type = PrimitiveRef("kStr"),
                              !.size_expr = Some(ExprInt(1))]}

\* the most instances of a sample
MaxInstances == 3

LuSamples ==
  LET A == CgAttr([DefaultAttr EXCEPT !.id = <<"a">>])
      B(e) == CgAttr([DefaultAttr EXCEPT !.id = <<"b">>, !.repeat = "kExpr",
                                         !.repeat_expr = Some(e)])
  IN {[CgBaseSpec EXCEPT !.attrs = <<A, B(e)>>, !.instances = i] :
        e \in {ExprInt(1), ExprName(<<"a">>), ExprName(<<"x">>), ExprName(<<"y">>)},
        i \in {l \in UpTo(LuInstancePool, MaxInstances) :
                 \A j, k \in DOMAIN l : l[j].id = l[k].id => j = k}}

\* a Spec the gate accepts
LuInit ==
  /\ lu_spec \in {s \in LuSamples : ValidateSupportedSubset(s).ok}
  /\ lu_property = {} /\ lu_known = {} /\ lu_i = 0 /\ lu_out = <<>>
  /\ lu_pc = "start"
  /\ RtIdle /\ LdIdle /\ CgIdle /\ ExIdle /\ GnIdle /\ VaIdle /\ ClIdle /\ MnIdle /\ FeIdle /\ KsIdle /\ EmIdle /\ DpIdle

\* the head of RenderLuaModule: property_instances is filled
LuStart ==
  /\ lu_pc = "start"
  /\ lu_property' = PropertyInstances(lu_spec.instances, BuildUserTypeMap(lu_spec.types))
  /\ lu_i' = 1
  /\ lu_pc' = "attrs"
  /\ UNCHANGED <<lu_spec, lu_known, lu_out, lu_rest>>

\* one turn of the loop over spec.attrs that writes _read()
LuReadAttr ==
  /\ lu_pc = "attrs" /\ lu_i <= Len(lu_spec.attrs)
  /\ lu_out' = lu_out \o LuaAttrExprs(lu_spec.attrs[lu_i], BuildUserTypeMap(lu_spec.types),
                                      lu_property, lu_known)
  /\ lu_i' = lu_i + 1
  /\ UNCHANGED <<lu_spec, lu_property, lu_known, lu_pc, lu_rest>>

\* _read() is closed; the loop over spec.instances begins
LuReadEnd ==
  /\ lu_pc = "attrs" /\ lu_i > Len(lu_spec.attrs)
  /\ lu_i' = 1
  /\ lu_pc' = "instances"
  /\ UNCHANGED <<lu_spec, lu_property, lu_known, lu_out, lu_rest>>

\* one turn of the loop over spec.instances: the getter or the method,
\* then known_instances.insert(inst.id)
LuInstance ==
  /\ lu_pc = "instances" /\ lu_i <= Len(lu_spec.instances)
  /\ lu_out' = lu_out \o LuaInstanceExprs(lu_spec.instances[lu_i],
                                          BuildUserTypeMap(lu_spec.types), lu_property, lu_known)
  /\ lu_known' = lu_known \cup {lu_spec.instances[lu_i].id}
  /\ lu_i' = lu_i + 1
  /\ UNCHANGED <<lu_spec, lu_property, lu_pc, lu_rest>>

\* return out.str();
LuReturn ==
  /\ lu_pc = "instances" /\ lu_i > Len(lu_spec.instances)
  /\ lu_pc' = "done"
  /\ UNCHANGED <<lu_spec, lu_property, lu_known, lu_i, lu_out, lu_rest>>

LuNext == LuStart \/ LuReadAttr \/ LuReadEnd \/ LuInstance \/ LuReturn

\* the text of an expression in which every attr and every parse instance
\* of the Spec is a property and every value instance a method
LuaExpected(e, repeat_item, spec) ==
  LET Ids(items, kinds) == {items[i].id : i \in {j \in DOMAIN items : items[j].kind \in kinds}}
  IN LuaExpr(e, -1, repeat_item, {spec.attrs[i].id : i \in DOMAIN spec.attrs},
             Ids(spec.instances, {"kParse"}), Ids(spec.instances, {"kValue"}))

\* C25: every expression rendered for the Lua target has each reference to
\* an attr or to a parse instance as `self.<id>` and each reference to a
\* value instance as `self:<id>()`, whatever the order, number and types of
\* the instances of the Spec
C25_LuaReferences ==
  \A k \in DOMAIN lu_out :
    lu_out[k].text = LuaExpected(lu_out[k].expr, lu_out[k].repeat_item, lu_spec)

----------------------------------------------------------------------------
(* cli_options.cpp: ValidateBackendCompatibility; main.cpp: main from the  *)
(* command line to the emitter calls                                       *)

SupportedTargets ==
  {<<"c", "p", "p", "_", "s", "t", "l">>, <<"l", "u", "a">>, <<"p", "y", "t", "h", "o", "n">>, <<"r", "u", "b", "y">>, <<"w", "i", "r", "e", "s", "h", "a", "r", "k", "_", "l", "u", "a">>}

SupportsReadWriteTarget(target) == target \in {<<"c", "p", "p", "_", "s", "t", "l">>, <<"p", "y", "t", "h", "o", "n">>}

\* ValidateBackendCompatibility without the test of the C++ standard
ValidateBackendCompatibilityAnyStandard(options) ==
  LET target == options.targets[1]
      runtime == options.runtime
  IN IF options.targets = <<>> THEN ""
     ELSE IF Len(options.targets) # 1
     THEN "multiple targets are not supported by compiler-cpp backend; specify exactly one target"
     ELSE IF target \notin SupportedTargets
     THEN "target is accepted by CLI but not implemented in compiler-cpp backend"
     ELSE IF runtime.read_write /\ ~SupportsReadWriteTarget(target)
     THEN "--read-write is not supported for target in compiler-cpp backend"
     ELSE IF ~runtime.auto_read /\ ~(runtime.read_write \/ runtime.read_pos)
     THEN "--no-auto-read currently requires --read-write or --read-pos"
     ELSE IF target = <<"c", "p", "p", "_", "s", "t", "l">>
     THEN IF runtime.python_package # <<>>
          THEN "--python-package is only supported with target 'python'"
          ELSE ""
     ELSE IF runtime.cpp_namespace # <<>>
     THEN "--cpp-namespace is only supported with target 'cpp_stl'"
     ELSE IF runtime.java_package # <<>>
     THEN "--java-package is not supported for native compiler-cpp targets"
     ELSE IF runtime.java_from_file_class # <<>>
     THEN "--java-from-file-class is not supported for native compiler-cpp targets"
     ELSE IF runtime.dotnet_namespace # <<>>
     THEN "--dotnet-namespace is not supported for native compiler-cpp targets"
     ELSE IF runtime.php_namespace # <<>>
     THEN "--php-namespace is not supported for native compiler-cpp targets"
     ELSE IF runtime.go_package # <<>>
     THEN "--go-package is not supported for native compiler-cpp targets"
     ELSE IF runtime.nim_module # <<>>
     THEN "--nim-module is not supported for native compiler-cpp targets"
     ELSE IF runtime.nim_opaque # <<>>
     THEN "--nim-opaque is not supported for native compiler-cpp targets"
     ELSE IF runtime.opaque_types
     THEN "--opaque-types is not supported for native compiler-cpp targets"
     ELSE IF ~runtime.zero_copy_substream /\ ~runtime.read_write
     THEN "--zero-copy-substream=false is not supported for native compiler-cpp targets"
     ELSE IF runtime.python_package # <<>> /\ target # <<"p", "y", "t", "h", "o", "n">>
     THEN "--python-package is only supported with target 'python'"
     ELSE ""

\* the error the options get from the backend, "" for none
ValidateBackendCompatibility(options) ==
  LET target == options.targets[1]
      runtime == options.runtime
  IN IF options.targets = <<>> THEN ""
     ELSE IF Len(options.targets) # 1
     THEN "multiple targets are not supported by compiler-cpp backend; specify exactly one target"
     ELSE IF target \notin SupportedTargets
     THEN "target is accepted by CLI but not implemented in compiler-cpp backend"
     ELSE IF runtime.read_write /\ ~SupportsReadWriteTarget(target)
     THEN "--read-write is not supported for target in compiler-cpp backend"
     ELSE IF ~runtime.auto_read /\ ~(runtime.read_write \/ runtime.read_pos)
     THEN "--no-auto-read currently requires --read-write or --read-pos"
     ELSE IF target = <<"c", "p", "p", "_", "s", "t", "l">>
     THEN IF runtime.cpp_standard # <<"1", "7">>
          THEN "target 'cpp_stl' currently requires --cpp-standard 17"
          ELSE IF runtime.python_package # <<>>
          THEN "--python-package is only supported with target 'python'"
          ELSE ""
     ELSE IF runtime.cpp_namespace # <<>>
     THEN "--cpp-namespace is only supported with target 'cpp_stl'"
     ELSE IF runtime.java_package # <<>>
     THEN "--java-package is not supported for native compiler-cpp targets"
     ELSE IF runtime.java_from_file_class # <<>>
     THEN "--java-from-file-class is not supported for native compiler-cpp targets"
     ELSE IF runtime.dotnet_namespace # <<>>
     THEN "--dotnet-namespace is not supported for native compiler-cpp targets"
     ELSE IF runtime.php_namespace # <<>>
     THEN "--php-namespace is not supported for native compiler-cpp targets"
     ELSE IF runtime.go_package # <<>>
     THEN "--go-package is not supported for native compiler-cpp targets"
     ELSE IF runtime.nim_module # <<>>
     THEN "--nim-module is not supported for native compiler-cpp targets"
     ELSE IF runtime.nim_opaque # <<>>
     THEN "--nim-opaque is not supported for native compiler-cpp targets"
     ELSE IF runtime.opaque_types
     THEN "--opaque-types is not supported for native compiler-cpp targets"
     ELSE IF ~runtime.zero_copy_substream /\ ~runtime.read_write
     THEN "--zero-copy-substream=false is not supported for native compiler-cpp targets"
     ELSE IF runtime.python_package # <<>> /\ target # <<"p", "y", "t", "h", "o", "n">>
     THEN "--python-package is only supported with target 'python'"
     ELSE ""

\* the most options and input files on a sample command line
MaxOptions == 4

\* the options and input files the sample command lines are made of, each
\* option with its value; also a -t that lacks its value
DpOptionPool ==
  {<<Flag.t, <<"c", "p", "p", "_", "s", "t", "l">>>>,
   <<Flag.target, <<"p", "y", "t", "h", "o", "n">>>>,
   <<Flag.t, <<"l", "u", "a">>>>,
   <<Flag.t, <<"r", "u", "b", "y">>>>,
   <<Flag.t, <<"w", "i", "r", "e", "s", "h", "a", "r", "k", "_", "l", "u", "a">>>>,
   <<Flag.t, <<"a", "l", "l">>>>,
   <<Flag.t, <<"j", "a", "v", "a">>>>,
   <<Flag.cpp_standard, <<"1", "7">>>>,
   <<Flag.cpp_standard, <<"1", "1">>>>,
   <<Flag.from_ir, <<"x", ".", "k", "s", "i", "r">>>>,
   <<<<"x", ".", "k", "s", "y">>>>,
   <<Flag.w>>,
   <<Flag.no_auto_read>>,
   <<Flag.python_package, <<"p">>>>,
   <<Flag.t>>,
   <<Flag.h>>}

DpInit ==
  /\ dp_argv \in {Concat(options) : options \in UpTo(DpOptionPool, MaxOptions)}
  /\ dp_parse = [status |-> "none"] /\ dp_backend_error = ""
  /\ dp_specs = 0 /\ dp_i = 0 /\ dp_called = <<>> /\ dp_line = "" /\ dp_exit = NullOpt
  /\ dp_pc = "start"
  /\ RtIdle /\ LdIdle /\ CgIdle /\ ExIdle /\ GnIdle /\ VaIdle /\ ClIdle /\ MnIdle /\ FeIdle /\ KsIdle /\ EmIdle /\ LuIdle

\* main: ParseCommandLine and the two tests of its status
DpParse ==
  /\ dp_pc = "start"
  /\ LET Parsed(parse) ==
           /\ dp_parse' = parse
           /\ IF parse.status \in {"kHelp", "kVersion"}
              THEN dp_line' = parse.message /\ dp_exit' = Some(0) /\ dp_pc' = "exited"
              ELSE IF parse.status = "kError"
              THEN dp_line' = "Try '--help' for usage." /\ dp_exit' = Some(1)
                   /\ dp_pc' = "exited"
              ELSE dp_pc' = "parsed" /\ UNCHANGED <<dp_line, dp_exit>>
     IN Parsed(ParseCommandLine(dp_argv))
  /\ UNCHANGED <<dp_argv, dp_backend_error, dp_specs, dp_i, dp_called, dp_rest>>

\* main: ValidateBackendCompatibility and the test of its result
DpValidate ==
  /\ dp_pc = "parsed"
  /\ dp_backend_error' = ValidateBackendCompatibility(dp_parse.options)
  /\ IF dp_backend_error' # ""
     THEN dp_line' = dp_backend_error' /\ dp_exit' = Some(1) /\ dp_pc' = "exited"
     ELSE dp_pc' = "load" /\ UNCHANGED <<dp_line, dp_exit>>
  /\ UNCHANGED <<dp_argv, dp_parse, dp_specs, dp_i, dp_called, dp_rest>>

\* main: the Specs are loaded from the IR file or come out of the four
\* stages of the frontend, or one of these fails; with other than one
\* target main then ends: after --from-ir with the line of the validation,
\* else in its last branch
DpLoad ==
  /\ dp_pc = "load"
  /\ \/ /\ dp_line' = IF dp_parse.options.from_ir # <<>> THEN "Error: IR validation failed"
                      ELSE "Error: frontend failed"
        /\ dp_exit' = Some(1) /\ dp_pc' = "exited"
        /\ UNCHANGED <<dp_specs, dp_i>>
     \/ \E n \in 1..MaxSpecs :
          /\ dp_specs' = n
          /\ IF Len(dp_parse.options.targets) = 1
             THEN dp_i' = 1 /\ dp_pc' = "emit" /\ UNCHANGED <<dp_line, dp_exit>>
             ELSE IF dp_parse.options.from_ir # <<>>
             THEN /\ dp_line' = "IR validation succeeded"
                  /\ dp_exit' = Some(0) /\ dp_pc' = "exited" /\ UNCHANGED dp_i
             ELSE /\ dp_line' = "Error: internal backend dispatch inconsistency after compatibility validation"
                  /\ dp_exit' = Some(1) /\ dp_pc' = "exited" /\ UNCHANGED dp_i
  /\ UNCHANGED <<dp_argv, dp_parse, dp_backend_error, dp_called, dp_rest>>

\* main: one turn of the loop over the Specs: the emitter of the target is
\* called and returns ok or an error, or no branch is the target's
DpEmit ==
  /\ dp_pc = "emit" /\ dp_i <= dp_specs
  /\ LET target == dp_parse.options.targets[1]
         wants_cpp_stl == target = <<"c", "p", "p", "_", "s", "t", "l">>
         wants_cpp17 == dp_parse.options.runtime.cpp_standard = <<"1", "7">>
         Gen(emitter) ==
           /\ dp_called' = Append(dp_called, emitter)
           /\ \/ /\ dp_line' = "Error: IR codegen failed"
                 /\ dp_exit' = Some(1) /\ dp_pc' = "exited" /\ UNCHANGED dp_i
              \/ /\ dp_line' = IF dp_parse.options.from_ir # <<>> THEN "IR codegen succeeded"
                               ELSE "Native .ksy codegen succeeded"
                 /\ dp_i' = dp_i + 1 /\ UNCHANGED <<dp_exit, dp_pc>>
     IN IF wants_cpp_stl /\ wants_cpp17 THEN Gen("EmitCppStl17FromIr")
        ELSE IF target = <<"l", "u", "a">> THEN Gen("EmitLuaFromIr")
        ELSE IF target = <<"w", "i", "r", "e", "s", "h", "a", "r", "k", "_", "l", "u", "a">> THEN Gen("EmitWiresharkLuaFromIr")
        ELSE IF target = <<"p", "y", "t", "h", "o", "n">> THEN Gen("EmitPythonFromIr")
        ELSE IF target = <<"r", "u", "b", "y">> THEN Gen("EmitRubyFromIr")
        ELSE /\ dp_line' = "Error: internal backend dispatch inconsistency after compatibility validation"
             /\ dp_exit' = Some(1) /\ dp_pc' = "exited"
             /\ UNCHANGED <<dp_called, dp_i>>
  /\ UNCHANGED <<dp_argv, dp_parse, dp_backend_error, dp_specs, dp_rest>>

\* main: return 0 after the loop
DpReturn ==
  /\ dp_pc = "emit" /\ dp_i > dp_specs
  /\ dp_exit' = Some(0) /\ dp_pc' = "exited"
  /\ UNCHANGED <<dp_argv, dp_parse, dp_backend_error, dp_specs, dp_i, dp_called, dp_line,
                 dp_rest>>

DpNext == DpParse \/ DpValidate \/ DpLoad \/ DpEmit \/ DpReturn

\* C30: after ParseCommandLine returned kOk and ValidateBackendCompatibility
\* no error, main does not get to a branch that reports an internal
\* backend dispatch inconsistency: there is one target or none; with one,
\* every emitter call is a call of the emitter of that target, one for each
\* Spec when main leaves with code 0, and the target cpp_stl comes with the
\* C++ standard 17; with none, --from-ir is given, no emitter is called and
\* main leaves with code 0 after the load
C30_DispatchConsistent ==
  LET options == dp_parse.options
      EmitterOf(target) ==
        IF target = <<"c", "p", "p", "_", "s", "t", "l">> THEN "EmitCppStl17FromIr"
        ELSE IF target = <<"l", "u", "a">> THEN "EmitLuaFromIr"
        ELSE IF target = <<"w", "i", "r", "e", "s", "h", "a", "r", "k", "_", "l", "u", "a">> THEN "EmitWiresharkLuaFromIr"
        ELSE IF target = <<"p", "y", "t", "h", "o", "n">> THEN "EmitPythonFromIr"
        ELSE IF target = <<"r", "u", "b", "y">> THEN "EmitRubyFromIr"
        ELSE "none"
      One(target) ==
        /\ EmitterOf(target) # "none"
        /\ \A k \in DOMAIN dp_called : dp_called[k] = EmitterOf(target)
        /\ target = <<"c", "p", "p", "_", "s", "t", "l">> => options.runtime.cpp_standard = <<"1", "7">>
        /\ dp_exit = Some(0) => Len(dp_called) = dp_specs /\ dp_specs > 0
      NoTarget ==
        /\ options.from_ir # <<>>
        /\ dp_called = <<>>
        /\ (dp_pc = "exited" /\ dp_specs > 0)
             => (dp_exit = Some(0) /\ dp_line = "IR validation succeeded")
  IN (/\ dp_pc \in {"load", "emit", "exited"}
      /\ dp_parse.status = "kOk"
      /\ ValidateBackendCompatibility(options) = "")
       => /\ dp_line # "Error: internal backend dispatch inconsistency after compatibility validation"
          /\ Len(options.targets) <= 1
          /\ Len(options.targets) = 1 => One(options.targets[1])
          /\ Len(options.targets) = 0 => NoTarget

\* C30 happens: -t cpp_stl with --cpp-standard 17 on two Specs, both handed
\* to EmitCppStl17FromIr, and main has left with code 0
C30_Witness ==
  /\ dp_pc = "exited" /\ dp_exit = Some(0)
  /\ dp_parse.status = "kOk" /\ dp_backend_error = ""
  /\ dp_parse.options.targets = <<<<"c", "p", "p", "_", "s", "t", "l">>>>
  /\ dp_parse.options.runtime.cpp_standard = <<"1", "7">>
  /\ dp_called = <<"EmitCppStl17FromIr", "EmitCppStl17FromIr">>


vars == <<rt_vars, ld_vars, cg_vars, ex_vars, gn_vars, va_vars, cl_vars, mn_vars, fe_vars, ks_vars, em_vars, lu_vars, dp_vars>>

RtSpec == RtInit /\ [][RtNext]_vars

LdSpec == LdInit /\ [][LdNext]_vars

CgSpec == CgInit /\ [][CgNext]_vars

ExSpec == ExInit /\ [][ExNext]_vars

GnSpec == GnInit /\ [][GnNext]_vars

VaSpec == VaInit /\ [][VaNext]_vars

ClSpec == ClInit /\ [][ClNext]_vars

MnSpec == MnInit /\ [][MnNext]_vars

FeSpec == FeInit /\ [][FeNext]_vars

KsSpec == KsInit /\ [][KsNext]_vars

EmSpec == EmInit /\ [][EmNext]_vars

LuSpec == LuInit /\ [][LuNext]_vars

DpSpec == DpInit /\ [][DpNext]_vars

====
